---- MODULE Spec2Model ----
(***************************************************************************)
(* Snapshot store of kubera-reporting (kubera_reporting/storage.py):       *)
(* one JSON file per calendar date, the milestone classifier, the          *)
(* comparison resolver and the retention policy.                           *)
(*                                                                         *)
(* A datetime is a record [year, month, day, hour]; the hour stands for    *)
(* the whole time-of-day part.  A file name snapshot_YYYY-MM-DD.json is    *)
(* the triple <<YYYY, MM, DD>>.  A file is [snap, len]: the document being *)
(* written and the number of buffer flushes that have reached the file;    *)
(* it parses as JSON only when len = DocChunks.                            *)
(***************************************************************************)
EXTENDS Integers, Sequences, FiniteSets, TLC

VARIABLES
  files,      \* the data directory: file name -> file
  today,      \* the local calendar day (a datetime at midnight)
  nsaves,     \* number of save_snapshot calls so far
  lastSaved,  \* history: calendar date -> snapshot most recently saved for it
  op,         \* the last operation
  arg,        \* its argument
  ret,        \* its return value
  looked,     \* the file name the last operation looked up, <<>> if none
  writer      \* the save_snapshot in progress, when its steps are interleaved

vars == <<files, today, nsaves, lastSaved, op, arg, ret, looked, writer>>

----------------------------------------------------------------------------
(* Bounds *)

FirstYear == 2023
LastYear == 2025
NumStoreDays == 6
MaxDays == 2
MaxSaves == 3
MaxRetention == 3
DocChunks == 2
MaxAccounts == 2

Hours == {0, 13}
NetWorths == {100}

----------------------------------------------------------------------------
(* datetime arithmetic, as the standard library computes it *)

IsLeap(y) == (y % 4 = 0) /\ ((y % 100 # 0) \/ (y % 400 = 0))

DaysInMonth(y, m) ==
  IF m = 2 THEN (IF IsLeap(y) THEN 29 ELSE 28)
  ELSE IF m \in {4, 6, 9, 11} THEN 30 ELSE 31

DaysBeforeYear(y) ==
  (y - 1) * 365 + ((y - 1) \div 4) - ((y - 1) \div 100) + ((y - 1) \div 400)

\* days of the year before the first of month m
DaysBeforeMonth(y, m) ==
  <<0, 31, 59, 90, 120, 151, 181, 212, 243, 273, 304, 334>>[m]
    + (IF m > 2 /\ IsLeap(y) THEN 1 ELSE 0)

\* date.toordinal(): day 1 is 0001-01-01
toordinal(dt) == DaysBeforeYear(dt.year) + DaysBeforeMonth(dt.year, dt.month) + dt.day

\* the month and day of day number n (1-based) of year y
month_day(y, n, h) ==
  LET guess == (n + 49) \div 32
      m == IF DaysBeforeMonth(y, guess) >= n THEN guess - 1 ELSE guess
  IN [year |-> y, month |-> m, day |-> n - DaysBeforeMonth(y, m), hour |-> h]

\* the datetime with ordinal n and time of day h: the 400, 100, 4 and 1 year
\* cycles are peeled off the day count in turn
fromordinal(n, h) ==
  LET n0 == n - 1
      n400 == n0 \div 146097
      r400 == n0 % 146097
      n100 == r400 \div 36524
      r100 == r400 % 36524
      n4 == r100 \div 1461
      r4 == r100 % 1461
      n1 == r4 \div 365
      r1 == r4 % 365
      y == n400 * 400 + 1 + n100 * 100 + n4 * 4 + n1
  IN IF n1 = 4 \/ n100 = 4
     THEN [year |-> y - 1, month |-> 12, day |-> 31, hour |-> h]
     ELSE month_day(y, r1 + 1, h)

\* dt - timedelta(days=k): the time of day is kept
minus_days(dt, k) == fromordinal(toordinal(dt) - k, dt.hour)

\* date.weekday(): Monday is 0
weekday(dt) == (toordinal(dt) + 6) % 7

\* datetime.replace(year=y, month=m, day=d): the time of day is kept
replace(dt, y, m, d) == [year |-> y, month |-> m, day |-> d, hour |-> dt.hour]

\* datetime >= datetime
dt_ge(a, b) ==
  \/ a.year > b.year
  \/ a.year = b.year /\ a.month > b.month
  \/ a.year = b.year /\ a.month = b.month /\ a.day > b.day
  \/ a.year = b.year /\ a.month = b.month /\ a.day = b.day /\ a.hour >= b.hour

\* datetime.date()
date_of(dt) == <<dt.year, dt.month, dt.day>>

----------------------------------------------------------------------------
(* Return values *)

None == [kind |-> "none", val |-> 0]
StorageError == [kind |-> "error", val |-> 0]
Returned(kind, v) == [kind |-> kind, val |-> v]

----------------------------------------------------------------------------
(* SnapshotStorage *)

\* f"snapshot_{date.strftime('%Y-%m-%d')}.json"
get_snapshot_path(date) == <<date.year, date.month, date.day>>

\* an open that leaves the new file alone in the directory
open_trunc_alone(fs, path, snapshot) ==
  [p \in {path} |-> [snap |-> snapshot, len |-> 0]]

\* os.open(path, O_WRONLY | O_CREAT | O_TRUNC): the file exists and is empty
open_trunc(fs, path, snapshot) ==
  [p \in DOMAIN fs \cup {path} |->
     IF p = path THEN [snap |-> snapshot, len |-> 0] ELSE fs[p]]

\* one flush of the buffered writer reaches the file
flush(fs, path) == [fs EXCEPT ![path].len = @ + 1]

RECURSIVE write_all(_, _)
write_all(fs, path) ==
  IF fs[path].len = DocChunks THEN fs ELSE write_all(flush(fs, path), path)

\* save_snapshot that leaves a file that already exists as it is
save_snapshot_keep_existing(fs, snapshot) ==
  LET path == get_snapshot_path(snapshot.timestamp)
  IN IF path \in DOMAIN fs THEN fs ELSE write_all(open_trunc(fs, path, snapshot), path)

\* the file system after a save_snapshot that ran to completion
save_snapshot(fs, snapshot) ==
  LET path == get_snapshot_path(snapshot.timestamp)
  IN write_all(open_trunc(fs, path, snapshot), path)

\* json.load of a file: a document cut short does not parse
json_load(file) ==
  IF file.len = DocChunks THEN Returned("snapshot", file.snap) ELSE StorageError

\* load_snapshot that answers None for a file that does not parse
load_snapshot_swallow(fs, date) ==
  LET path == get_snapshot_path(date)
  IN IF path \notin DOMAIN fs THEN None
     ELSE IF json_load(fs[path]).kind = "error" THEN None ELSE json_load(fs[path])

load_snapshot(fs, date) ==
  LET path == get_snapshot_path(date)
  IN IF path \notin DOMAIN fs THEN None ELSE json_load(fs[path])

\* max(sorted(glob("snapshot_*.json"), reverse=True)): names compare as text
name_ge(p, q) ==
  \/ p[1] > q[1]
  \/ p[1] = q[1] /\ p[2] > q[2]
  \/ p[1] = q[1] /\ p[2] = q[2] /\ p[3] >= q[3]

load_latest_snapshot(fs) ==
  IF DOMAIN fs = {} THEN None
  ELSE json_load(fs[CHOOSE p \in DOMAIN fs : \A q \in DOMAIN fs : name_ge(p, q)])

\* datetime.strptime(date_str, "%Y-%m-%d"): midnight of the named day
strptime(path) == [year |-> path[1], month |-> path[2], day |-> path[3], hour |-> 0]

RECURSIVE sorted_reverse(_)
sorted_reverse(S) ==
  IF S = {} THEN <<>>
  ELSE LET mx == CHOOSE x \in S : \A y \in S : dt_ge(x, y)
       IN <<mx>> \o sorted_reverse(S \ {mx})

\* a listing that stops after the four newest dates
list_snapshots_newest(fs) ==
  LET dates == sorted_reverse({strptime(p) : p \in DOMAIN fs})
  IN SubSeq(dates, 1, IF Len(dates) < 4 THEN Len(dates) ELSE 4)

list_snapshots(fs) == sorted_reverse({strptime(p) : p \in DOMAIN fs})

\* is_milestone_date without the Monday test
is_milestone_date_first_only(date) ==
  IF date.day = 1 THEN TRUE
  ELSE IF date.month \in {1, 4, 7, 10} /\ date.day = 1 THEN TRUE
  ELSE IF date.month = 1 /\ date.day = 1 THEN TRUE
  ELSE FALSE

\* is_milestone_date that takes Monday to be weekday 1, as isoweekday() numbers it
is_milestone_date_isoweekday(date) ==
  IF weekday(date) = 1 THEN TRUE
  ELSE IF date.day = 1 THEN TRUE
  ELSE IF date.month \in {1, 4, 7, 10} /\ date.day = 1 THEN TRUE
  ELSE IF date.month = 1 /\ date.day = 1 THEN TRUE
  ELSE FALSE

is_milestone_date(date) ==
  IF weekday(date) = 0 THEN TRUE
  ELSE IF date.day = 1 THEN TRUE
  ELSE IF date.month \in {1, 4, 7, 10} /\ date.day = 1 THEN TRUE
  ELSE IF date.month = 1 /\ date.day = 1 THEN TRUE
  ELSE FALSE

\* get_milestone_types with the quarter test outside the first-of-month test
get_milestone_types_unnested(date) ==
  LET t1 == <<"daily">>
      t2 == IF weekday(date) = 0 THEN Append(t1, "weekly") ELSE t1
      t3 == IF date.day = 1 THEN Append(t2, "monthly") ELSE t2
      t4 == IF date.month \in {1, 4, 7, 10} THEN Append(t3, "quarterly") ELSE t3
      t5 == IF date.day = 1 /\ date.month = 1 THEN Append(t4, "yearly") ELSE t4
  IN t5

get_milestone_types(date) ==
  LET t1 == <<"daily">>
      t2 == IF weekday(date) = 0 THEN Append(t1, "weekly") ELSE t1
      t3 == IF date.day = 1 THEN Append(t2, "monthly") ELSE t2
      t4 == IF date.day = 1 /\ date.month \in {1, 4, 7, 10}
            THEN Append(t3, "quarterly") ELSE t3
      t5 == IF date.day = 1 /\ date.month = 1 THEN Append(t4, "yearly") ELSE t4
  IN t5

Max(S) == CHOOSE x \in S : \A y \in S : x >= y

\* datetime.replace raises ValueError unless the fields name a real day
replace_ok(y, m, d) == y >= 1 /\ y <= 9999 /\ m \in 1..12 /\ d >= 1 /\ d <= DaysInMonth(y, m)

Resolved(dt) == [ok |-> TRUE, date |-> dt]
Raised == [ok |-> FALSE, date |-> <<>>]

\* MONTHLY that replaces the month and keeps the day of the month
monthly_comparison_date_keep_day(current_date) ==
  IF current_date.month = 1
  THEN IF replace_ok(current_date.year - 1, 12, current_date.day)
       THEN Resolved(replace(current_date, current_date.year - 1, 12, current_date.day))
       ELSE Raised
  ELSE IF replace_ok(current_date.year, current_date.month - 1, current_date.day)
       THEN Resolved(replace(current_date, current_date.year, current_date.month - 1,
                             current_date.day))
       ELSE Raised

monthly_comparison_date(current_date) ==
  IF current_date.month = 1
  THEN IF replace_ok(current_date.year - 1, 12, 1)
       THEN Resolved(replace(current_date, current_date.year - 1, 12, 1)) ELSE Raised
  ELSE IF replace_ok(current_date.year, current_date.month - 1, 1)
       THEN Resolved(replace(current_date, current_date.year, current_date.month - 1, 1))
       ELSE Raised

\* QUARTERLY that takes the latest quarter start before D's month as D's quarter
quarterly_comparison_date_strict(current_date) ==
  LET quarter_starts == {1, 4, 7, 10}
      current_quarter_month ==
        IF current_date.month = 1 THEN 1
        ELSE Max({m \in quarter_starts : m < current_date.month})
  IN IF current_quarter_month = 1
     THEN IF replace_ok(current_date.year - 1, 10, 1)
          THEN Resolved(replace(current_date, current_date.year - 1, 10, 1)) ELSE Raised
     ELSE LET prev_quarter_month == Max({m \in quarter_starts : m < current_quarter_month})
          IN IF replace_ok(current_date.year, prev_quarter_month, 1)
             THEN Resolved(replace(current_date, current_date.year, prev_quarter_month, 1))
             ELSE Raised

quarterly_comparison_date(current_date) ==
  LET quarter_starts == {1, 4, 7, 10}
      current_quarter_month == Max({m \in quarter_starts : m <= current_date.month})
  IN IF current_quarter_month = 1
     THEN IF replace_ok(current_date.year - 1, 10, 1)
          THEN Resolved(replace(current_date, current_date.year - 1, 10, 1)) ELSE Raised
     ELSE LET prev_quarter_month == Max({m \in quarter_starts : m < current_quarter_month})
          IN IF replace_ok(current_date.year, prev_quarter_month, 1)
             THEN Resolved(replace(current_date, current_date.year, prev_quarter_month, 1))
             ELSE Raised

\* YEARLY that replaces the year only
yearly_comparison_date_year_only(current_date) ==
  IF replace_ok(current_date.year - 1, current_date.month, current_date.day)
  THEN Resolved(replace(current_date, current_date.year - 1, current_date.month,
                        current_date.day))
  ELSE Raised

yearly_comparison_date(current_date) ==
  IF replace_ok(current_date.year - 1, 1, 1)
  THEN Resolved(replace(current_date, current_date.year - 1, 1, 1)) ELSE Raised

\* the comparison_date that get_comparison_snapshot hands to load_snapshot
comparison_date(current_date, report_type) ==
  IF report_type = "daily" THEN Resolved(minus_days(current_date, 1))
  ELSE IF report_type = "weekly" THEN Resolved(minus_days(current_date, 7))
  ELSE IF report_type = "monthly" THEN monthly_comparison_date(current_date)
  ELSE IF report_type = "quarterly" THEN quarterly_comparison_date(current_date)
  ELSE yearly_comparison_date(current_date)

get_comparison_snapshot(fs, current_date, report_type) ==
  LET c == comparison_date(current_date, report_type)
  IN IF c.ok THEN load_snapshot(fs, c.date) ELSE StorageError

unlink(fs, path) == [p \in DOMAIN fs \ {path} |-> fs[p]]

\* the loop's tests without yesterday among the days always kept
cleanup_keeps_today_only(snapshot_date, today_, yesterday, retention_cutoff) ==
  IF date_of(snapshot_date) \in {date_of(today_)} THEN TRUE
  ELSE IF dt_ge(snapshot_date, retention_cutoff) THEN TRUE
  ELSE IF is_milestone_date(snapshot_date) THEN TRUE
  ELSE FALSE

\* whether the loop of cleanup_old_snapshots skips (keeps) snapshot_date
cleanup_keeps(snapshot_date, today_, yesterday, retention_cutoff) ==
  IF date_of(snapshot_date) \in {date_of(today_), date_of(yesterday)} THEN TRUE
  ELSE IF dt_ge(snapshot_date, retention_cutoff) THEN TRUE
  ELSE IF is_milestone_date(snapshot_date) THEN TRUE
  ELSE FALSE

RECURSIVE cleanup_loop(_, _, _, _, _, _, _)
cleanup_loop(snapshots, i, fs, deleted_count, today_, yesterday, retention_cutoff) ==
  IF i > Len(snapshots) THEN [files |-> fs, deleted_count |-> deleted_count]
  ELSE LET snapshot_date == snapshots[i]
           path == get_snapshot_path(snapshot_date)
       IN IF cleanup_keeps(snapshot_date, today_, yesterday, retention_cutoff)
          THEN cleanup_loop(snapshots, i + 1, fs, deleted_count,
                            today_, yesterday, retention_cutoff)
          ELSE IF path \in DOMAIN fs
          THEN cleanup_loop(snapshots, i + 1, unlink(fs, path), deleted_count + 1,
                            today_, yesterday, retention_cutoff)
          ELSE cleanup_loop(snapshots, i + 1, fs, deleted_count,
                            today_, yesterday, retention_cutoff)

\* cleanup_old_snapshots that always keeps today only
cleanup_old_snapshots_from_today(fs, now, retention_days) ==
  LET today_ == [now EXCEPT !.hour = 0]
      retention_cutoff == minus_days(today_, retention_days)
  IN cleanup_loop(list_snapshots(fs), 1, fs, 0, today_, today_, retention_cutoff)

\* now is datetime.now()
cleanup_old_snapshots(fs, now, retention_days) ==
  LET today_ == [now EXCEPT !.hour = 0]
      yesterday == minus_days(today_, 1)
      retention_cutoff == minus_days(today_, retention_days)
  IN cleanup_loop(list_snapshots(fs), 1, fs, 0, today_, yesterday, retention_cutoff)

----------------------------------------------------------------------------
(* Inputs *)

FirstStoreDay == [year |-> 2024, month |-> 12, day |-> 29, hour |-> 0]
FirstToday == [year |-> 2025, month |-> 1, day |-> 3, hour |-> 0]

\* the datetimes that snapshots are stamped with and looked up by
StoreDateTimes ==
  {fromordinal(toordinal(FirstStoreDay) + i, h) : i \in 0..(NumStoreDays - 1), h \in Hours}

Snapshots == [timestamp : StoreDateTimes, net_worth : NetWorths]

\* every datetime of the years FirstYear..LastYear
AllDateTimes ==
  {dt \in [year : FirstYear..LastYear, month : 1..12, day : 1..31, hour : Hours] :
     dt.day <= DaysInMonth(dt.year, dt.month)}

ReportTypes == {"daily", "weekly", "monthly", "quarterly", "yearly"}

Idle == [pc |-> "idle", path |-> <<>>]

\* the snapshot each calendar date holds, read off a directory of whole files
Stored(fs) == [d \in DOMAIN fs |-> fs[d].snap]

\* a directory with one snapshot for every day from the year before FirstYear
\* to the end of LastYear
FullStore ==
  [p \in {<<y, m, d>> \in ((FirstYear - 1)..LastYear) \X (1..12) \X (1..31) :
            d <= DaysInMonth(y, m)} |->
     [snap |-> [timestamp |-> strptime(p), net_worth |-> 100], len |-> DocChunks]]

EmptyStore == [p \in {} |-> 0]

----------------------------------------------------------------------------
(* The store used by one process: every operation runs to completion *)

Init ==
  /\ files = EmptyStore
  /\ today = FirstToday
  /\ nsaves = 0
  /\ lastSaved = EmptyStore
  /\ op = "init"
  /\ arg = <<>>
  /\ ret = None
  /\ looked = <<>>
  /\ writer = Idle

SaveSnapshot(snapshot) ==
  /\ nsaves < MaxSaves
  /\ files' = save_snapshot(files, snapshot)
  /\ nsaves' = nsaves + 1
  /\ lastSaved' =
       [d \in DOMAIN lastSaved \cup {date_of(snapshot.timestamp)} |->
          IF d = date_of(snapshot.timestamp) THEN snapshot ELSE lastSaved[d]]
  /\ op' = "save_snapshot"
  /\ arg' = snapshot
  /\ ret' = None
  /\ looked' = get_snapshot_path(snapshot.timestamp)
  /\ UNCHANGED <<today, writer>>

LoadSnapshot(date) ==
  /\ op' = "load_snapshot"
  /\ arg' = date
  /\ ret' = load_snapshot(files, date)
  /\ looked' = get_snapshot_path(date)
  /\ UNCHANGED <<files, today, nsaves, lastSaved, writer>>

LoadLatestSnapshot ==
  /\ op' = "load_latest_snapshot"
  /\ arg' = <<>>
  /\ ret' = load_latest_snapshot(files)
  /\ looked' = <<>>
  /\ UNCHANGED <<files, today, nsaves, lastSaved, writer>>

\* cleanup_old_snapshots(retention_days) called at hour h of the day today
CleanupOldSnapshots(retention_days, h) ==
  \E r \in {cleanup_old_snapshots(files, [today EXCEPT !.hour = h], retention_days)} :
     /\ files' = r.files
     /\ lastSaved' =
          [d \in {x \in DOMAIN lastSaved :
                    \E p \in DOMAIN files' : date_of(files'[p].snap.timestamp) = x} |->
             lastSaved[d]]
     /\ op' = "cleanup_old_snapshots"
     /\ arg' = retention_days
     /\ ret' = Returned("count", r.deleted_count)
     /\ looked' = <<>>
     /\ UNCHANGED <<today, nsaves, writer>>

ListStoredSnapshots ==
  /\ op' = "list_snapshots"
  /\ arg' = <<>>
  /\ ret' = Returned("dates", list_snapshots(files))
  /\ looked' = <<>>
  /\ UNCHANGED <<files, today, nsaves, lastSaved, writer>>

\* get_comparison_snapshot(datetime.now(), report_type) at hour h of the day today
GetStoredComparison(report_type, h) ==
  /\ op' = "get_comparison_snapshot"
  /\ arg' = report_type
  /\ ret' = get_comparison_snapshot(files, [today EXCEPT !.hour = h], report_type)
  /\ looked' = get_snapshot_path(comparison_date([today EXCEPT !.hour = h], report_type).date)
  /\ UNCHANGED <<files, today, nsaves, lastSaved, writer>>

\* midnight passes
NextDay ==
  /\ toordinal(today) < toordinal(FirstToday) + MaxDays
  /\ today' = fromordinal(toordinal(today) + 1, 0)
  /\ op' = "next_day"
  /\ arg' = <<>>
  /\ ret' = None
  /\ looked' = <<>>
  /\ UNCHANGED <<files, nsaves, lastSaved, writer>>

Next ==
  \/ \E snapshot \in Snapshots : SaveSnapshot(snapshot)
  \/ \E date \in StoreDateTimes : LoadSnapshot(date)
  \/ LoadLatestSnapshot
  \/ \E retention_days \in 0..MaxRetention, h \in Hours :
       CleanupOldSnapshots(retention_days, h)
  \/ ListStoredSnapshots
  \/ \E report_type \in ReportTypes, h \in Hours : GetStoredComparison(report_type, h)
  \/ NextDay

Spec == Init /\ [][Next]_vars

----------------------------------------------------------------------------
(* A reader running while save_snapshot writes: the steps of the write.     *)
(* Here op names the operation that took the last step.                    *)

\* os.open(..., O_TRUNC) has returned; nothing has been flushed yet
SaveOpen(snapshot) ==
  /\ writer.pc = "idle"
  /\ nsaves < MaxSaves
  /\ files' = open_trunc(files, get_snapshot_path(snapshot.timestamp), snapshot)
  /\ writer' = [pc |-> "writing", path |-> get_snapshot_path(snapshot.timestamp)]
  /\ op' = "save_snapshot"
  /\ arg' = snapshot
  /\ ret' = None
  /\ looked' = get_snapshot_path(snapshot.timestamp)
  /\ UNCHANGED <<today, nsaves, lastSaved>>

\* json.dump fills the buffer and the buffer is flushed to the file
SaveFlush ==
  /\ writer.pc = "writing"
  /\ files[writer.path].len < DocChunks - 1
  /\ files' = flush(files, writer.path)
  /\ op' = "save_snapshot"
  /\ arg' = files[writer.path].snap
  /\ ret' = None
  /\ looked' = writer.path
  /\ UNCHANGED <<today, nsaves, lastSaved, writer>>

\* leaving the with block flushes the rest and closes the file
SaveClose ==
  /\ writer.pc = "writing"
  /\ files' = write_all(files, writer.path)
  /\ writer' = Idle
  /\ nsaves' = nsaves + 1
  /\ lastSaved' =
       [d \in DOMAIN lastSaved \cup {date_of(files[writer.path].snap.timestamp)} |->
          IF d = date_of(files[writer.path].snap.timestamp)
          THEN files[writer.path].snap ELSE lastSaved[d]]
  /\ op' = "save_snapshot"
  /\ arg' = files[writer.path].snap
  /\ ret' = None
  /\ looked' = writer.path
  /\ UNCHANGED today

InitConc == Init

NextConc ==
  \/ \E snapshot \in Snapshots : SaveOpen(snapshot)
  \/ SaveFlush
  \/ SaveClose
  \/ \E date \in StoreDateTimes : LoadSnapshot(date)
  \/ LoadLatestSnapshot

SpecConc == InitConc /\ [][NextConc]_vars

----------------------------------------------------------------------------
(* The date functions applied to one datetime of FirstYear..LastYear *)

InitPure ==
  /\ files \in {EmptyStore, FullStore}
  /\ today = FirstToday
  /\ nsaves = 0
  /\ lastSaved = Stored(files)
  /\ op = "input"
  /\ arg \in AllDateTimes
  /\ ret = None
  /\ looked = <<>>
  /\ writer = Idle

IsMilestoneDate ==
  /\ op = "input"
  /\ op' = "is_milestone_date"
  /\ ret' = Returned("bool", is_milestone_date(arg))
  /\ UNCHANGED <<files, today, nsaves, lastSaved, arg, looked, writer>>

GetMilestoneTypes ==
  /\ op = "input"
  /\ op' = "get_milestone_types"
  /\ ret' = Returned("types", get_milestone_types(arg))
  /\ UNCHANGED <<files, today, nsaves, lastSaved, arg, looked, writer>>

GetComparisonSnapshot(report_type) ==
  /\ op = "input"
  /\ op' = report_type
  /\ ret' = get_comparison_snapshot(files, arg, report_type)
  /\ looked' = IF comparison_date(arg, report_type).ok
               THEN get_snapshot_path(comparison_date(arg, report_type).date)
               ELSE <<>>
  /\ UNCHANGED <<files, today, nsaves, lastSaved, arg, writer>>

NextPure ==
  \/ IsMilestoneDate
  \/ GetMilestoneTypes
  \/ \E report_type \in ReportTypes : GetComparisonSnapshot(report_type)

SpecPure == InitPure /\ [][NextPure]_vars

----------------------------------------------------------------------------
(* The calendar, stated independently of the ordinal arithmetic above *)

\* Julian day number of the calendar date <<y, m, d>>
JulianDay(p) ==
  LET a == (14 - p[2]) \div 12
      y == p[1] + 4800 - a
      m == p[2] + 12 * a - 3
  IN p[3] + ((153 * m + 2) \div 5) + 365 * y + (y \div 4) - (y \div 100) + (y \div 400)
       - 32045

\* Julian day numbers divisible by 7 are Mondays
IsMonday(p) == JulianDay(p) % 7 = 0

\* the calendar date one day before <<y, m, d>>
DayBefore(p) ==
  IF p[3] > 1 THEN <<p[1], p[2], p[3] - 1>>
  ELSE IF p[2] > 1 THEN <<p[1], p[2] - 1, DaysInMonth(p[1], p[2] - 1)>>
  ELSE <<p[1] - 1, 12, 31>>

RECURSIVE DaysBefore(_, _)
DaysBefore(p, k) == IF k = 0 THEN p ELSE DaysBefore(DayBefore(p), k - 1)

\* what a lookup of the calendar date p returns from the directory fs
Lookup(fs, p) ==
  IF p \notin DOMAIN fs THEN None
  ELSE IF fs[p].len = DocChunks THEN Returned("snapshot", fs[p].snap)
  ELSE StorageError

----------------------------------------------------------------------------
(* Properties *)

\* C1: the store holds at most one snapshot per calendar date, and loading a
\* date returns the snapshot most recently saved with that calendar date
\* (None for a date that holds none): a second save for a date overwrites.
C1_UpsertPerDate ==
  /\ \A p, q \in DOMAIN files :
       date_of(files[p].snap.timestamp) = date_of(files[q].snap.timestamp) => p = q
  /\ Cardinality(DOMAIN files) = Cardinality(DOMAIN lastSaved)
  /\ \A dt \in StoreDateTimes :
       LET r == load_snapshot(files, dt)
       IN IF <<dt.year, dt.month, dt.day>> \in DOMAIN lastSaved
          THEN r.kind = "snapshot" /\ r.val = lastSaved[<<dt.year, dt.month, dt.day>>]
          ELSE r.kind = "none"

\* two saves have run and the second replaced the first: one file, holding the
\* snapshot just saved
C1_Witness ==
  /\ op = "save_snapshot"
  /\ nsaves = 2
  /\ Cardinality(DOMAIN files) = 1
  /\ arg.timestamp.hour = 13
  /\ \A p \in DOMAIN files : files[p].snap = arg

\* C2: a cleanup run on day T with retention_days = r deletes exactly the
\* stored dates d with d # T, d # T-1, d < T - r and is_milestone_date(d)
\* false, leaves every other file as it was, and returns the number deleted.
C2_CleanupDeletesExactly ==
  [][op' = "cleanup_old_snapshots" =>
       LET T == JulianDay(<<today.year, today.month, today.day>>)
           Deleted == {p \in DOMAIN files :
                         /\ JulianDay(p) \notin {T, T - 1}
                         /\ JulianDay(p) < T - arg'
                         /\ ~is_milestone_date(strptime(p))}
       IN /\ DOMAIN files' = DOMAIN files \ Deleted
          /\ \A p \in DOMAIN files' : files'[p] = files[p]
          /\ ret' = Returned("count", Cardinality(Deleted))]_vars

\* a cleanup with retention_days = 0 deleted a snapshot and kept yesterday's,
\* which is not a milestone
C2_Witness ==
  /\ op = "cleanup_old_snapshots"
  /\ arg = 0
  /\ ret.val >= 1
  /\ DayBefore(<<today.year, today.month, today.day>>) \in DOMAIN files
  /\ ~is_milestone_date(minus_days(today, 1))

\* C3: a stored snapshot of a Monday or of a 1st of the month is never
\* deleted, whatever the day and the retention of the cleanups that run.
C3_MilestonesKept ==
  [][\A p \in DOMAIN files : (IsMonday(p) \/ p[3] = 1) => p \in DOMAIN files']_vars

\* a cleanup deleted a snapshot while a Monday and a 1st of the month, both
\* older than the retention window and than yesterday, stayed stored
C3_Witness ==
  /\ op = "cleanup_old_snapshots"
  /\ ret.val >= 1
  /\ \E p, q \in DOMAIN files :
       /\ IsMonday(p) /\ p[3] # 1
       /\ q[3] = 1 /\ ~IsMonday(q)
       /\ JulianDay(p) < JulianDay(<<today.year, today.month, today.day>>) - 1 - arg
       /\ JulianDay(q) < JulianDay(<<today.year, today.month, today.day>>) - 1 - arg

\* C4: the MONTHLY comparison of any date D looks up the 1st of the month
\* before D's month (December 1 of the year before when D is in January),
\* and does not raise, whatever D's day of the month.
C4_MonthlyComparison ==
  op = "monthly" =>
    LET p == IF arg.month = 1 THEN <<arg.year - 1, 12, 1>>
             ELSE <<arg.year, arg.month - 1, 1>>
    IN looked = p /\ ret = Lookup(files, p)

\* the MONTHLY comparison of a March 31 found the snapshot of February 1
C4_Witness ==
  /\ op = "monthly"
  /\ arg.month = 3 /\ arg.day = 31
  /\ ret.kind = "snapshot"
  /\ looked[2] = 2

\* C5: the QUARTERLY comparison of any date D looks up the 1st of the
\* quarter-start month before D's quarter, October 1 of the year before when D
\* is in January-March.
C5_QuarterlyComparison ==
  op = "quarterly" =>
    LET p == IF arg.month \in 1..3 THEN <<arg.year - 1, 10, 1>>
             ELSE IF arg.month \in 4..6 THEN <<arg.year, 1, 1>>
             ELSE IF arg.month \in 7..9 THEN <<arg.year, 4, 1>>
             ELSE <<arg.year, 7, 1>>
    IN looked = p /\ ret = Lookup(files, p)

\* the QUARTERLY comparison of a date inside a quarter (not its first day)
\* found the snapshot of the previous quarter's start
C5_Witness ==
  /\ op = "quarterly"
  /\ arg.month = 8 /\ arg.day = 31
  /\ ret.kind = "snapshot"
  /\ looked[2] = 4

\* C6: DAILY looks up D minus one calendar day, WEEKLY D minus seven calendar
\* days, YEARLY January 1 of the year before D's year; none of them raises.
C6_DailyWeeklyYearlyComparison ==
  /\ op = "daily" =>
       /\ looked = DayBefore(<<arg.year, arg.month, arg.day>>)
       /\ JulianDay(looked) = JulianDay(<<arg.year, arg.month, arg.day>>) - 1
       /\ ret = Lookup(files, looked)
  /\ op = "weekly" =>
       /\ looked = DaysBefore(<<arg.year, arg.month, arg.day>>, 7)
       /\ JulianDay(looked) = JulianDay(<<arg.year, arg.month, arg.day>>) - 7
       /\ ret = Lookup(files, looked)
  /\ op = "yearly" =>
       /\ looked = <<arg.year - 1, 1, 1>>
       /\ ret = Lookup(files, looked)

\* the YEARLY comparison of a February 29 found the snapshot of January 1 of
\* the year before
C6_Witness ==
  /\ op = "yearly"
  /\ arg.month = 2 /\ arg.day = 29
  /\ ret.kind = "snapshot"

\* C7: get_milestone_types(D) is DAILY, WEEKLY, MONTHLY, QUARTERLY, YEARLY in
\* that order, restricted to the types that apply to D.
Applies(D, t) ==
  \/ t = "daily"
  \/ t = "weekly" /\ IsMonday(<<D.year, D.month, D.day>>)
  \/ t = "monthly" /\ D.day = 1
  \/ t = "quarterly" /\ D.day = 1 /\ D.month \in {1, 4, 7, 10}
  \/ t = "yearly" /\ D.day = 1 /\ D.month = 1

RECURSIVE Restrict(_, _)
Restrict(seq, D) ==
  IF seq = <<>> THEN <<>>
  ELSE IF Applies(D, Head(seq)) THEN <<Head(seq)>> \o Restrict(Tail(seq), D)
  ELSE Restrict(Tail(seq), D)

C7_MilestoneTypes ==
  op = "get_milestone_types" =>
    ret.val = Restrict(<<"daily", "weekly", "monthly", "quarterly", "yearly">>, arg)

\* a quarter start that is not a Monday and not January 1
C7_Witness ==
  /\ op = "get_milestone_types"
  /\ ret.val = <<"daily", "monthly", "quarterly">>

\* C8: is_milestone_date(D) is true exactly when D is a Monday or the 1st of
\* a month.
C8_IsMilestoneDate ==
  op = "is_milestone_date" =>
    ret.val = (IsMonday(<<arg.year, arg.month, arg.day>>) \/ arg.day = 1)

\* a Monday that is not the 1st of a month is a milestone
C8_Witness ==
  /\ op = "is_milestone_date"
  /\ ret.val = TRUE
  /\ arg.day # 1

\* C9: a load that interleaves with a save never observes an empty or partly
\* written file: it returns a whole document or None.
C9_AtomicSave ==
  op \in {"load_snapshot", "load_latest_snapshot"} => ret.kind \in {"none", "snapshot"}

\* C10: load_snapshot(d) returns the document stored for calendar date d,
\* None when there is none, and raises StorageError when the stored content
\* does not parse; the store is left as it was.
C10_LoadSnapshot ==
  [][op' = "load_snapshot" =>
       /\ files' = files
       /\ ret' = Lookup(files, <<arg'.year, arg'.month, arg'.day>>)
       /\ ret'.kind = "snapshot" =>
            <<ret'.val.timestamp.year, ret'.val.timestamp.month, ret'.val.timestamp.day>>
              = <<arg'.year, arg'.month, arg'.day>>]_vars

\* a load of a file whose content does not parse raised StorageError
C10_Witness ==
  /\ op = "load_snapshot"
  /\ ret.kind = "error"
  /\ looked \in DOMAIN files

----------------------------------------------------------------------------
(* PortfolioReporter: holdings aggregation and the delta engine             *)
(* (kubera_reporting/reporter.py).                                          *)
(*                                                                         *)
(* Snapshots are objects on a heap, a sequence indexed by reference; 0 is  *)
(* Python's None.  An account id is the sequence of its characters.  A     *)
(* percentage is the exact quotient [num, den] of the float division.      *)

abs(x) == IF x < 0 THEN 0 - x ELSE x

\* acc_id.startswith("_")
is_holding_prefix(acc_id) == acc_id # <<>> /\ acc_id[1] = "_"

\* "_" in acc_id
is_holding(acc_id) == \E i \in 1..Len(acc_id) : acc_id[i] = "_"

\* a zero test that no account passes
has_zero_value_never(account) == FALSE

\* account["value"]["amount"] == 0
has_zero_value(account) == account.value.amount = 0

\* the loop that fills filtered_accounts
RECURSIVE filtered_accounts(_)
filtered_accounts(accounts) ==
  IF accounts = <<>> THEN <<>>
  ELSE LET account == Head(accounts)
       IN IF ~is_holding(account.id) /\ ~has_zero_value(account)
          THEN <<account>> \o filtered_accounts(Tail(accounts))
          ELSE filtered_accounts(Tail(accounts))

\* _aggregate_holdings_to_accounts filtering the caller's snapshot in place
aggregate_holdings_to_accounts_in_place(heap, snapshot) ==
  [heap |-> [heap EXCEPT ![snapshot].accounts = filtered_accounts(heap[snapshot].accounts)],
   ref |-> snapshot]

\* _aggregate_holdings_to_accounts: {**snapshot, "accounts": filtered_accounts} is
\* a new object
aggregate_holdings_to_accounts(heap, snapshot) ==
  [heap |-> Append(heap, [heap[snapshot] EXCEPT
                            !.accounts = filtered_accounts(heap[snapshot].accounts)]),
   ref |-> Len(heap) + 1]

NoPercent == [kind |-> "none", num |-> 0, den |-> 1]

\* (change / previous amount) * 100, dividing by the signed amount
percent_of_signed(change_amount, previous_amount) ==
  IF previous_amount # 0
  THEN [kind |-> "percent", num |-> change_amount * 100, den |-> previous_amount]
  ELSE NoPercent

\* (change / abs(previous amount)) * 100 when the previous amount is not zero
percent_of(change_amount, previous_amount) ==
  IF previous_amount # 0
  THEN [kind |-> "percent", num |-> change_amount * 100, den |-> abs(previous_amount)]
  ELSE NoPercent

NoMoney == [amount |-> 0, currency |-> "none"]

\* prev_accounts.get(id): the dict keeps the last account of each id; 0 is None
RECURSIVE prev_accounts_get(_, _)
prev_accounts_get(accounts, id) ==
  IF accounts = <<>> THEN 0
  ELSE IF accounts[Len(accounts)].id = id THEN Len(accounts)
  ELSE prev_accounts_get(SubSeq(accounts, 1, Len(accounts) - 1), id)

\* an AccountDelta that reports a new account as a change of zero percent
account_delta_zero_percent(account, previous_accounts, currency) ==
  LET i == prev_accounts_get(previous_accounts, account.id)
  IN IF i # 0
     THEN [id |-> account.id,
           category |-> account.category,
           current_value |-> account.value,
           previous_value |-> previous_accounts[i].value,
           change |-> [amount |-> account.value.amount - previous_accounts[i].value.amount,
                       currency |-> currency],
           change_percent |-> percent_of(
               account.value.amount - previous_accounts[i].value.amount,
               previous_accounts[i].value.amount)]
     ELSE [id |-> account.id,
           category |-> account.category,
           current_value |-> account.value,
           previous_value |-> [amount |-> 0, currency |-> currency],
           change |-> account.value,
           change_percent |-> [kind |-> "percent", num |-> 0, den |-> 1]]

\* the AccountDelta of one account of the aggregated current snapshot
account_delta(account, previous_accounts, currency) ==
  LET i == prev_accounts_get(previous_accounts, account.id)
  IN IF i # 0
     THEN [id |-> account.id,
           category |-> account.category,
           current_value |-> account.value,
           previous_value |-> previous_accounts[i].value,
           change |-> [amount |-> account.value.amount - previous_accounts[i].value.amount,
                       currency |-> currency],
           change_percent |-> percent_of(
               account.value.amount - previous_accounts[i].value.amount,
               previous_accounts[i].value.amount)]
     ELSE [id |-> account.id,
           category |-> account.category,
           current_value |-> account.value,
           previous_value |-> [amount |-> 0, currency |-> currency],
           change |-> account.value,
           change_percent |-> NoPercent]

\* a test that lets every delta into both lists
in_list_any(account, asset) == TRUE

\* if account["category"] == "asset": asset_changes, else: debt_changes
in_list(account, asset) == (account.category = "asset") = asset

\* the loop over current["accounts"]: the deltas of one of the two lists
RECURSIVE changes_of(_, _, _, _)
changes_of(accounts, previous_accounts, currency, asset) ==
  IF accounts = <<>> THEN <<>>
  ELSE LET account == Head(accounts)
           rest == changes_of(Tail(accounts), previous_accounts, currency, asset)
       IN IF in_list(account, asset)
          THEN <<account_delta(account, previous_accounts, currency)>> \o rest
          ELSE rest

\* where list.sort puts x in a list already sorted: behind every element that
\* does not have to come after x (the sort is stable)
RECURSIVE list_insert(_, _, _)
list_insert(sorted, x, reverse) ==
  IF sorted = <<>> THEN <<x>>
  ELSE IF (reverse /\ abs(Head(sorted).change.amount) >= abs(x.change.amount))
          \/ (~reverse /\ abs(Head(sorted).change.amount) <= abs(x.change.amount))
  THEN <<Head(sorted)>> \o list_insert(Tail(sorted), x, reverse)
  ELSE <<x>> \o sorted

\* list.sort(key=lambda x: abs(x["change"]["amount"]), reverse=reverse)
RECURSIVE list_sort(_, _)
list_sort(changes, reverse) ==
  IF changes = <<>> THEN <<>>
  ELSE list_insert(list_sort(SubSeq(changes, 1, Len(changes) - 1), reverse),
                   changes[Len(changes)], reverse)

\* list.reverse()
RECURSIVE reversed(_)
reversed(seq) == IF seq = <<>> THEN <<>> ELSE Append(reversed(Tail(seq)), Head(seq))

\* sorting ascending and reversing the list: equal keys come out swapped
sort_changes_reversed(changes) == reversed(list_sort(changes, FALSE))

\* asset_changes.sort(..., reverse=True) and debt_changes.sort(..., reverse=True)
sort_changes(changes) == list_sort(changes, TRUE)

\* the ReportData built from the aggregated snapshots cur and prev (prev = 0: None)
report_data(heap, current_original, cur, prev) ==
  LET previous_accounts == IF prev # 0 THEN heap[prev].accounts ELSE <<>>
      change == heap[cur].net_worth.amount - heap[prev].net_worth.amount
  IN [current |-> cur,
      current_unaggregated |-> current_original,
      previous |-> prev,
      net_worth_change |->
        IF prev # 0 THEN [amount |-> change, currency |-> heap[cur].currency] ELSE NoMoney,
      net_worth_change_percent |->
        IF prev # 0 THEN percent_of(change, heap[prev].net_worth.amount) ELSE NoPercent,
      asset_changes |->
        sort_changes(changes_of(heap[cur].accounts, previous_accounts,
                                heap[cur].currency, TRUE)),
      debt_changes |->
        sort_changes(changes_of(heap[cur].accounts, previous_accounts,
                                heap[cur].currency, FALSE))]

\* the second half of calculate_deltas, after current has been aggregated
deltas_after_current(h1, current_original, previous) ==
  IF previous # 0
  THEN LET h2 == aggregate_holdings_to_accounts(h1.heap, previous)
       IN [heap |-> h2.heap,
           report |-> report_data(h2.heap, current_original, h1.ref, h2.ref)]
  ELSE [heap |-> h1.heap, report |-> report_data(h1.heap, current_original, h1.ref, 0)]

\* calculate_deltas(current, previous): the heap afterwards and the ReportData
calculate_deltas(heap, current, previous) ==
  deltas_after_current(aggregate_holdings_to_accounts(heap, current), current, previous)

----------------------------------------------------------------------------
(* The delta engine on its own: one call of calculate_deltas per behaviour. *)

AccountIds == {<<"a">>, <<"a", "_", "x">>, <<"b">>}
Amounts == {0, 100, 300}
PreviousNetWorths == {0 - 100, 0, 100}

Money(amounts, currency) == [amount : amounts, currency : {currency}]

\* the sequences of at most MaxAccounts accounts with different ids
AccountLists(accounts) ==
  UNION {{l \in [1..k -> accounts] :
            \A i \in 1..k : \A j \in 1..k : l[i].id = l[j].id => i = j} :
         k \in 0..MaxAccounts}

\* what fetch_snapshot hands to the report: the portfolio in its own currency
CurrentSnapshots ==
  [timestamp : {FirstToday},
   currency : {"USD"},
   net_worth : Money({100}, "USD"),
   accounts : AccountLists([id : AccountIds, value : Money(Amounts, "USD"),
                            category : {"asset", "debt"}])]

\* a stored snapshot of an earlier day, kept in another currency; its accounts
\* are listed in the order of their ids, and their category is never read
PreviousSnapshots ==
  [timestamp : {minus_days(FirstToday, 1)},
   currency : {"EUR"},
   net_worth : Money(PreviousNetWorths, "EUR"),
   accounts : {l \in AccountLists([id : AccountIds, value : Money(Amounts, "EUR"),
                                   category : {"asset"}]) :
                 \A i \in 1..(Len(l) - 1) :
                    Len(l[i].id) < Len(l[i + 1].id)
                    \/ (Len(l[i].id) = Len(l[i + 1].id) /\ l[i].id = <<"a">>)}]

InitDelta ==
  /\ files = EmptyStore
  /\ today = FirstToday
  /\ nsaves = 0
  /\ lastSaved = EmptyStore
  /\ op = "input"
  /\ \/ \E current \in CurrentSnapshots :
          arg = [heap |-> <<current>>, current |-> 1, previous |-> 0]
     \/ \E current \in CurrentSnapshots : \E previous \in PreviousSnapshots :
          arg = [heap |-> <<current, previous>>, current |-> 1, previous |-> 2]
  /\ ret = None
  /\ looked = <<>>
  /\ writer = Idle

CalculateDeltas ==
  /\ op = "input"
  /\ op' = "calculate_deltas"
  /\ \E r \in {calculate_deltas(arg.heap, arg.current, arg.previous)} :
       ret' = Returned("report", r)
  /\ UNCHANGED <<files, today, nsaves, lastSaved, arg, looked, writer>>

\* the aggregator called on its own, and again on its own result
AggregateHoldings ==
  /\ op = "input"
  /\ op' = "_aggregate_holdings_to_accounts"
  /\ \E r \in {aggregate_holdings_to_accounts(arg.heap, arg.current)} :
       ret' = Returned("aggregated",
                       [once |-> r, twice |-> aggregate_holdings_to_accounts(r.heap, r.ref)])
  /\ UNCHANGED <<files, today, nsaves, lastSaved, arg, looked, writer>>

NextDelta ==
  \/ CalculateDeltas
  \/ AggregateHoldings

SpecDelta == InitDelta /\ [][NextDelta]_vars

----------------------------------------------------------------------------
(* The report command (kubera_reporting/cli.py): for each report type due   *)
(* today, look the comparison snapshot up and compute the deltas.           *)

\* today's portfolio: a parent account, one of its holdings, and a loan
ReportCurrent(date) ==
  [timestamp |-> date,
   currency |-> "USD",
   net_worth |-> [amount |-> 100, currency |-> "USD"],
   accounts |-> <<[id |-> <<"a">>, category |-> "asset",
                   value |-> [amount |-> 300, currency |-> "USD"]],
                  [id |-> <<"a", "_", "x">>, category |-> "asset",
                   value |-> [amount |-> 300, currency |-> "USD"]],
                  [id |-> <<"b">>, category |-> "debt",
                   value |-> [amount |-> 100, currency |-> "USD"]]>>]

\* a directory with a snapshot for every second day, starting with the days of
\* even (k = 0) or odd (k = 1) ordinal
ReportStore(k) ==
  [p \in {<<y, m, d>> \in ((FirstYear - 1)..LastYear) \X (1..12) \X (1..31) :
            d <= DaysInMonth(y, m) /\ toordinal(strptime(<<y, m, d>>)) % 2 = k} |->
     [snap |-> [timestamp |-> strptime(p),
                currency |-> "USD",
                net_worth |-> [amount |-> 100, currency |-> "USD"],
                accounts |-> <<[id |-> <<"a">>, category |-> "asset",
                                value |-> [amount |-> 100, currency |-> "USD"]]>>],
      len |-> DocChunks]]

InitReport ==
  /\ files \in {EmptyStore, ReportStore(0), ReportStore(1)}
  /\ today = FirstToday
  /\ nsaves = 0
  /\ lastSaved = Stored(files)
  /\ op = "input"
  /\ \E date \in AllDateTimes : arg = [today |-> date, current |-> ReportCurrent(date)]
  /\ ret = None
  /\ looked = <<>>
  /\ writer = Idle

\* a report path that takes a missing comparison snapshot for a failure
generate_report_raise_missing(current_snapshot, previous_snapshot) ==
  IF previous_snapshot.kind \in {"error", "none"} THEN StorageError
  ELSE Returned("report", calculate_deltas(<<current_snapshot, previous_snapshot.val>>, 1, 2))

\* _generate_and_send_report up to the ReportData
generate_report(current_snapshot, previous_snapshot) ==
  IF previous_snapshot.kind = "error" THEN StorageError
  ELSE IF previous_snapshot.kind = "none"
  THEN Returned("report", calculate_deltas(<<current_snapshot>>, 1, 0))
  ELSE Returned("report", calculate_deltas(<<current_snapshot, previous_snapshot.val>>, 1, 2))

\* one pass of the loop over storage.get_milestone_types(today)
GenerateReport(report_type) ==
  /\ op = "input"
  /\ \E i \in 1..Len(get_milestone_types(arg.today)) :
       get_milestone_types(arg.today)[i] = report_type
  /\ op' = report_type
  /\ \E previous_snapshot \in {get_comparison_snapshot(files, arg.today, report_type)} :
       ret' = generate_report(arg.current, previous_snapshot)
  /\ looked' = IF comparison_date(arg.today, report_type).ok
               THEN get_snapshot_path(comparison_date(arg.today, report_type).date)
               ELSE <<>>
  /\ UNCHANGED <<files, today, nsaves, lastSaved, arg, writer>>

NextReport == \E report_type \in ReportTypes : GenerateReport(report_type)

SpecReport == InitReport /\ [][NextReport]_vars

----------------------------------------------------------------------------
(* Properties of the report path *)

\* C11: when nothing is stored at the date a report type resolves to, the lookup
\* gives None and raises nothing, and the ReportData computed from it has no
\* previous snapshot, no net worth change, no net worth change percent, and no
\* change percent in any account delta.
C11_MissingComparison ==
  [][\A report_type \in ReportTypes :
       (op' = report_type /\ looked' \notin DOMAIN files)
       => /\ get_comparison_snapshot(files, arg.today, report_type) = None
          /\ ret'.kind = "report"
          /\ ret'.val.report.previous = 0
          /\ ret'.val.report.net_worth_change = NoMoney
          /\ ret'.val.report.net_worth_change_percent = NoPercent
          /\ \A i \in 1..Len(ret'.val.report.asset_changes) :
               ret'.val.report.asset_changes[i].change_percent = NoPercent
          /\ \A i \in 1..Len(ret'.val.report.debt_changes) :
               ret'.val.report.debt_changes[i].change_percent = NoPercent]_vars

\* a monthly report was computed although the store holds nothing for the first
\* of last month, and it lists an asset and a debt
C11_Witness ==
  /\ op = "monthly"
  /\ files # EmptyStore
  /\ looked \notin DOMAIN files
  /\ ret.kind = "report"
  /\ ret.val.report.asset_changes # <<>>
  /\ ret.val.report.debt_changes # <<>>

----------------------------------------------------------------------------
(* Properties of the delta engine.  The accounts a report is about are      *)
(* stated here from the input alone: parents and standalone accounts, whose *)
(* id holds no underscore, with an amount other than zero.                  *)

Chars(id) == {id[i] : i \in DOMAIN id}
Reported(account) == "_" \notin Chars(account.id) /\ account.value.amount # 0
Items(seq) == {seq[i] : i \in DOMAIN seq}
InputCurrent == arg.heap[arg.current]
InputPrevious == arg.heap[arg.previous]
Report == ret.val.report
Occurrences(changes, id) == Cardinality({i \in DOMAIN changes : changes[i].id = id})

\* C12: the two lists together hold exactly one delta for each reported account
\* of the current snapshot and none for any other id (an account only the
\* previous snapshot has gets no delta); a delta is in asset_changes exactly
\* when its account's category is "asset", and in debt_changes otherwise.
C12_OneDeltaPerAccount ==
  op = "calculate_deltas" =>
    /\ \A account \in Items(InputCurrent.accounts) :
         /\ Occurrences(Report.asset_changes, account.id)
              = IF Reported(account) /\ account.category = "asset" THEN 1 ELSE 0
         /\ Occurrences(Report.debt_changes, account.id)
              = IF Reported(account) /\ account.category # "asset" THEN 1 ELSE 0
    /\ \A delta \in Items(Report.asset_changes) \cup Items(Report.debt_changes) :
         \E account \in Items(InputCurrent.accounts) :
           account.id = delta.id /\ account.category = delta.category

\* deltas were computed for a current snapshot with a debt and a dropped holding
\* while the previous snapshot has an account the current one lacks
C12_Witness ==
  /\ op = "calculate_deltas"
  /\ arg.previous # 0
  /\ \E account \in Items(InputPrevious.accounts) :
       /\ Reported(account)
       /\ \A other \in Items(InputCurrent.accounts) : other.id # account.id
  /\ \E account \in Items(InputCurrent.accounts) : ~Reported(account)
  /\ Len(Report.debt_changes) = 1
  /\ Report.asset_changes = <<>>

Magnitude(x) == IF x >= 0 THEN x ELSE 0 - x

\* percent is the quotient change * 100 / |base|
IsPercentOf(percent, change, base) ==
  /\ percent.kind = "percent"
  /\ percent.den > 0
  /\ percent.num * Magnitude(base) = change * 100 * percent.den

IsNull(percent) == percent.kind = "none"

Deltas == Items(Report.asset_changes) \cup Items(Report.debt_changes)
CurrentAccount(id) == CHOOSE account \in Items(InputCurrent.accounts) : account.id = id
PreviousAccounts == IF arg.previous = 0 THEN {} ELSE Items(InputPrevious.accounts)

\* C13: each delta carries its account's current value; when the previous
\* snapshot has an account of the same id, change is the current amount minus the
\* previous amount and change_percent is change / |previous amount| * 100, null
\* when the previous amount is zero; when the previous snapshot has no reported
\* account of that id, previous_value is zero in the current snapshot's currency,
\* change is the current value and change_percent is null.
C13_MatchById ==
  op = "calculate_deltas" =>
    \A delta \in Deltas :
      /\ delta.current_value = CurrentAccount(delta.id).value
      /\ \A previous \in PreviousAccounts :
           previous.id = delta.id =>
             /\ delta.change.amount = delta.current_value.amount - previous.value.amount
             /\ IF previous.value.amount = 0
                THEN IsNull(delta.change_percent)
                ELSE IsPercentOf(delta.change_percent, delta.change.amount,
                                 previous.value.amount)
      /\ (\A previous \in PreviousAccounts : previous.id = delta.id => ~Reported(previous))
           => /\ delta.previous_value = [amount |-> 0, currency |-> InputCurrent.currency]
              /\ delta.change = delta.current_value
              /\ IsNull(delta.change_percent)

\* a report holds a delta of an account that lost two thirds of its value and a
\* delta of an account the previous snapshot lacks
C13_Witness ==
  /\ op = "calculate_deltas"
  /\ arg.previous # 0
  /\ \E delta \in Deltas :
       /\ delta.change.amount = 0 - 200
       /\ delta.previous_value = [amount |-> 300, currency |-> "EUR"]
       /\ delta.change_percent.kind = "percent"
  /\ \E delta \in Deltas :
       /\ \A previous \in PreviousAccounts : previous.id # delta.id
       /\ delta.change.amount = 300

\* C27: records of amount zero do not reach the deltas: a current account of
\* amount zero gets no delta, whatever the previous snapshot holds for its id; a
\* delta whose id has only zero-amount accounts (or none) in the previous snapshot
\* is reported as new, with previous_value zero, change equal to the current value
\* and a null change_percent; and a delta whose id has a non-zero account in the
\* previous snapshot has a non-zero previous amount and a change_percent that is
\* not null.
C27_ZeroValuesInvisible ==
  op = "calculate_deltas" =>
    /\ \A account \in Items(InputCurrent.accounts) :
         account.value.amount = 0 =>
           ~\E delta \in Deltas :
               delta.id = account.id /\ delta.current_value = account.value
    /\ \A delta \in Deltas :
         IF \A previous \in PreviousAccounts :
              previous.id = delta.id => previous.value.amount = 0
         THEN /\ delta.previous_value = [amount |-> 0, currency |-> InputCurrent.currency]
              /\ delta.change = delta.current_value
              /\ IsNull(delta.change_percent)
         ELSE /\ delta.previous_value.amount # 0
              /\ ~IsNull(delta.change_percent)

\* the current snapshot has an account of amount zero that the previous snapshot
\* holds with a non-zero amount, and a delta reported as new for an account that
\* the previous snapshot holds with amount zero
C27_Witness ==
  /\ op = "calculate_deltas"
  /\ arg.previous # 0
  /\ \E account \in Items(InputCurrent.accounts), previous \in PreviousAccounts :
       /\ account.value.amount = 0
       /\ previous.id = account.id
       /\ previous.value.amount # 0
  /\ \E delta \in Deltas, previous \in PreviousAccounts :
       /\ previous.id = delta.id
       /\ previous.value.amount = 0
       /\ delta.change = delta.current_value
       /\ IsNull(delta.change_percent)

Position(id) == CHOOSE i \in DOMAIN InputCurrent.accounts : InputCurrent.accounts[i].id = id

SortedStable(changes) ==
  \A i \in DOMAIN changes : \A j \in DOMAIN changes :
    i < j =>
      /\ Magnitude(changes[i].change.amount) >= Magnitude(changes[j].change.amount)
      /\ Magnitude(changes[i].change.amount) = Magnitude(changes[j].change.amount)
           => Position(changes[i].id) < Position(changes[j].id)

\* C14: in asset_changes and in debt_changes the absolute change amounts never
\* increase along the list, and deltas of equal absolute change stand in the
\* order their accounts have in the current snapshot.
C14_SortedByAbsoluteChange ==
  op = "calculate_deltas" =>
    /\ SortedStable(Report.asset_changes)
    /\ SortedStable(Report.debt_changes)

\* a list holds a loss of 200 in front of a gain of 200, as the accounts stand in
\* the current snapshot
C14_Witness ==
  /\ op = "calculate_deltas"
  /\ \E changes \in {Report.asset_changes, Report.debt_changes} :
       /\ Len(changes) = 2
       /\ changes[1].change.amount = 0 - 200
       /\ changes[2].change.amount = 200

\* C15: with a previous snapshot, net_worth_change is the current net worth
\* minus the previous net worth, in the current snapshot's currency, and
\* net_worth_change_percent is that change / |previous net worth| * 100, null
\* exactly when the previous net worth is zero.
C15_NetWorthChange ==
  (op = "calculate_deltas" /\ arg.previous # 0) =>
    /\ Report.net_worth_change.amount
         = InputCurrent.net_worth.amount - InputPrevious.net_worth.amount
    /\ Report.net_worth_change.currency = InputCurrent.currency
    /\ IsNull(Report.net_worth_change_percent) <=> InputPrevious.net_worth.amount = 0
    /\ InputPrevious.net_worth.amount # 0
         => IsPercentOf(Report.net_worth_change_percent, Report.net_worth_change.amount,
                        InputPrevious.net_worth.amount)

\* the net worth rose from -100 to 100: a change of 200, reported as +200 percent
C15_Witness ==
  /\ op = "calculate_deltas"
  /\ arg.previous # 0
  /\ InputPrevious.net_worth.amount = 0 - 100
  /\ Report.net_worth_change = [amount |-> 200, currency |-> "USD"]
  /\ Report.net_worth_change_percent.kind = "percent"
  /\ Report.net_worth_change_percent.num = 200 * Report.net_worth_change_percent.den

AggregatedOnce == ret.val.once.heap[ret.val.once.ref]
AggregatedTwice == ret.val.twice.heap[ret.val.twice.ref]

\* C16: the snapshot the aggregator returns lists exactly the input's accounts
\* whose id holds no underscore and whose amount is not zero, in the input's
\* order, and equals the input in every other field; aggregating the result
\* again gives the same snapshot.
C16_AggregateFilters ==
  op = "_aggregate_holdings_to_accounts" =>
    /\ AggregatedOnce.accounts = SelectSeq(InputCurrent.accounts, Reported)
    /\ [AggregatedOnce EXCEPT !.accounts = InputCurrent.accounts] = InputCurrent
    /\ AggregatedTwice = AggregatedOnce

\* a snapshot that starts with a child holding and ends with a parent account
\* was aggregated to the parent account alone
C16_Witness ==
  /\ op = "_aggregate_holdings_to_accounts"
  /\ Len(InputCurrent.accounts) = 2
  /\ "_" \in Chars(InputCurrent.accounts[1].id)
  /\ InputCurrent.accounts[1].value.amount # 0
  /\ AggregatedOnce.accounts = <<InputCurrent.accounts[2]>>

HeapAfter == ret.val.heap

\* C17: after calculate_deltas the caller's current and previous snapshots are
\* what they were before the call; current_unaggregated is the caller's current
\* snapshot; the report's current and previous snapshots list reported accounts
\* only.
C17_InputsNotMutated ==
  op = "calculate_deltas" =>
    /\ HeapAfter[arg.current] = InputCurrent
    /\ arg.previous # 0 => HeapAfter[arg.previous] = InputPrevious
    /\ Report.current_unaggregated = arg.current
    /\ \A account \in Items(HeapAfter[Report.current].accounts) : Reported(account)
    /\ (Report.previous = 0) <=> (arg.previous = 0)
    /\ Report.previous # 0
         => \A account \in Items(HeapAfter[Report.previous].accounts) : Reported(account)

\* deltas were computed from a current snapshot with a child holding and a
\* previous snapshot with a zero-valued account, and both are still there
C17_Witness ==
  /\ op = "calculate_deltas"
  /\ arg.previous # 0
  /\ \E account \in Items(HeapAfter[arg.current].accounts) : "_" \in Chars(account.id)
  /\ \E account \in Items(HeapAfter[arg.previous].accounts) : account.value.amount = 0
  /\ Report.current # arg.current
  /\ Report.previous # arg.previous

----------------------------------------------------------------------------
(* Asset allocation (kubera_reporting/allocation.py).                       *)
(*                                                                         *)
(* A string is the sequence of its fragments: words, parts of words and the *)
(* blanks between them, so that "High-Income Trust" is                     *)
(* <<"High-Inc", "ome", " ", "Trust">>.  The empty sequence stands for      *)
(* every falsy value of an optional field: a missing key, None and "".     *)

\* str.lower() on one fragment, for the fragments that hold capitals
lower_fragment(w) ==
  CASE w = "ETF" -> "etf"
    [] w = "Fund" -> "fund"
    [] w = "Bond" -> "bond"
    [] w = "Cash" -> "cash"
    [] w = "Crypto" -> "crypto"
    [] w = "Real" -> "real"
    [] w = "Estate" -> "estate"
    [] w = "Bank" -> "bank"
    [] w = "Investment" -> "investment"
    [] w = "Assets" -> "assets"
    [] w = "Growth" -> "growth"
    [] w = "Total" -> "total"
    [] w = "Index" -> "index"
    [] w = "Wallet" -> "wallet"
    [] w = "Savings" -> "savings"
    [] w = "My" -> "my"
    [] w = "House" -> "house"
    [] w = "High-Inc" -> "high-inc"
    [] w = "Trust" -> "trust"
    [] OTHER -> w

\* str.lower()
lower(str) == [i \in DOMAIN str |-> lower_fragment(str[i])]

\* kw in str
contains(str, kw) ==
  \E i \in 0..(Len(str) - Len(kw)) : SubSeq(str, i + 1, i + Len(kw)) = kw

\* str.startswith(prefix)
startswith(str, prefix) ==
  Len(str) >= Len(prefix) /\ SubSeq(str, 1, Len(prefix)) = prefix

AllocationCategories == {"Stocks", "Bonds", "Crypto", "Real Estate", "Cash", "Other"}

subtype_to_category ==
  (<<"stock">> :> "Stocks")
  @@ (<<"etf">> :> "Stocks")
  @@ (<<"bond">> :> "Bonds")
  @@ (<<"cash">> :> "Cash")
  @@ (<<"crypto">> :> "Crypto")
  @@ (<<"cryptocurrency">> :> "Crypto")
  @@ (<<"real", " ", "estate">> :> "Real Estate")
  @@ (<<"property">> :> "Real Estate")
  @@ (<<"primary", " ", "residence">> :> "Real Estate")
  @@ (<<"investment", " ", "property">> :> "Real Estate")

bond_keywords ==
  {<<"bond">>, <<"fixed", " ", "income">>, <<"yield">>, <<"yld">>,
   <<"floating", " ", "rate">>, <<"floating-rate">>, <<"high", " ", "income">>,
   <<"high-inc", "ome">>, <<"high-inc">>, <<"income", " ", "fund">>,
   <<"income", " ", "builder">>, <<"mortgage">>, <<"treasury">>, <<"municipal">>,
   <<"corporate", " ", "debt">>, <<"balanced", " ", "income">>}

investment_keywords ==
  {<<"investment">>, <<"brokerage">>, <<"ira">>, <<"401k">>, <<"stock">>, <<"equity">>}

NoCategory == "None"

\* the lower-cased metadata of an account
metadata(account) ==
  [sub_type |-> lower(account.sub_type),
   asset_class |-> lower(account.asset_class),
   account_type |-> lower(account.account_type),
   sheet |-> lower(account.sheet_name),
   name |-> lower(account.name)]

\* if sub_type in subtype_to_category
by_sub_type(f) ==
  IF f.sub_type \in DOMAIN subtype_to_category
  THEN subtype_to_category[f.sub_type] ELSE NoCategory

\* if sub_type == "mutual fund" or asset_class == "fund": Bonds or Stocks by name
by_fund(category, f) ==
  IF f.sub_type = <<"mutual", " ", "fund">> \/ f.asset_class = <<"fund">>
  THEN IF \E kw \in bond_keywords : contains(f.name, kw) THEN "Bonds" ELSE "Stocks"
  ELSE category

\* if category is None and asset_class in subtype_to_category
by_asset_class(category, f) ==
  IF category = NoCategory /\ f.asset_class \in DOMAIN subtype_to_category
  THEN subtype_to_category[f.asset_class] ELSE category

\* if category is None: asset_class "stock" or "crypto"
by_stock_or_crypto(category, f) ==
  IF category = NoCategory
  THEN IF f.asset_class = <<"stock">> THEN "Stocks"
       ELSE IF f.asset_class = <<"crypto">> THEN "Crypto"
       ELSE category
  ELSE category

\* if category is None: the sheet name and the account type
by_sheet(category, f) ==
  IF category = NoCategory
  THEN IF contains(f.sheet, <<"crypto">>) THEN "Crypto"
       ELSE IF contains(f.sheet, <<"real", " ", "estate">>) \/ f.account_type = <<"property">>
       THEN "Real Estate"
       ELSE category
  ELSE category

\* if category is None: keywords in the name and the sheet name
by_name(category, f) ==
  IF category = NoCategory
  THEN IF contains(f.name, <<"crypto">>) THEN "Crypto"
       ELSE IF contains(f.name, <<"bond">>) THEN "Bonds"
       ELSE IF contains(f.sheet, <<"real", " ", "estate">>) \/ contains(f.sheet, <<"property">>)
       THEN "Real Estate"
       ELSE IF contains(f.sheet, <<"bank">>) \/ contains(f.name, <<"cash">>)
               \/ contains(f.name, <<"checking">>) \/ contains(f.name, <<"savings">>)
       THEN "Cash"
       ELSE IF \E kw \in investment_keywords : contains(f.sheet, kw) \/ contains(f.name, kw)
       THEN "Stocks"
       ELSE category
  ELSE category

\* if category is None: category = "Other"
by_default(category) == IF category = NoCategory THEN "Other" ELSE category

\* the value of category after each if-block of the loop body, in order
cascade(account) ==
  LET f == metadata(account)
      c1 == by_sub_type(f)
      c2 == by_fund(c1, f)
      c3 == by_asset_class(c2, f)
      c4 == by_stock_or_crypto(c3, f)
      c5 == by_sheet(c4, f)
      c6 == by_name(c5, f)
  IN <<c1, c2, c3, c4, c5, c6, by_default(c6)>>

\* the category the amount is added to
classify(account) == cascade(account)[7]

----------------------------------------------------------------------------
(* The classification of one account, over a product of metadata values.    *)

SubTypes == {<<>>, <<"ETF">>, <<"bond">>, <<"mutual", " ", "fund">>, <<"other">>}
AssetClasses == {<<>>, <<"Fund">>, <<"stock">>, <<"crypto">>, <<"cash">>}
AccountTypes == {<<>>, <<"property">>}
SheetNames ==
  {<<"Assets">>, <<"Crypto">>, <<"Real", " ", "Estate">>, <<"Bank">>, <<"Investment", "s">>,
   <<"Cash">>}
Names ==
  {<<"Growth", " ", "Fund">>, <<"Total", " ", "Bond", " ", "Index">>,
   <<"Crypto", " ", "Wallet">>, <<"Savings">>, <<"My", " ", "House">>,
   <<"High-Inc", "ome", " ", "Trust">>}

InitClassify ==
  /\ files = EmptyStore
  /\ today = FirstToday
  /\ nsaves = 0
  /\ lastSaved = EmptyStore
  /\ op = "input"
  /\ arg \in [id : {<<"a">>}, category : {"asset"},
              value : Money({100}, "USD"),
              sub_type : SubTypes, asset_class : AssetClasses,
              account_type : AccountTypes, sheet_name : SheetNames, name : Names]
  /\ ret = None
  /\ looked = <<>>
  /\ writer = Idle

\* the loop body on one account, from the metadata to the category
Classify ==
  /\ op = "input"
  /\ op' = "classify"
  /\ ret' = Returned("category", [tiers |-> cascade(arg), category |-> classify(arg)])
  /\ UNCHANGED <<files, today, nsaves, lastSaved, arg, looked, writer>>

NextClassify == Classify

SpecClassify == InitClassify /\ [][NextClassify]_vars

----------------------------------------------------------------------------
(* Properties of the classification *)

\* the first tier as the specification tables it, on lower-cased sub types
Tier1Category(sub_type) ==
  CASE sub_type \in {<<"stock">>, <<"etf">>} -> "Stocks"
    [] sub_type = <<"bond">> -> "Bonds"
    [] sub_type = <<"cash">> -> "Cash"
    [] sub_type \in {<<"crypto">>, <<"cryptocurrency">>} -> "Crypto"
    [] sub_type \in {<<"real", " ", "estate">>, <<"property">>,
                     <<"primary", " ", "residence">>, <<"investment", " ", "property">>}
         -> "Real Estate"
    [] OTHER -> "None"

\* C18: once a tier has assigned a category no later tier changes it, and an
\* account whose sub type is in the first tier's map gets that map's category
\* whatever its name, asset class, account type and sheet name are.
C18_FirstMatchWins ==
  op = "classify" =>
    /\ \A i \in 1..7 : \A j \in 1..7 :
         (i < j /\ ret.val.tiers[i] # "None") => ret.val.tiers[j] = ret.val.tiers[i]
    /\ Tier1Category(lower(arg.sub_type)) # "None"
         => ret.val.category = Tier1Category(lower(arg.sub_type))

----------------------------------------------------------------------------
(* calculate_asset_allocation on whole snapshots *)

\* a test for children that does not look at the category of the other account
has_children_any_category(accounts, account_id) ==
  \E i \in DOMAIN accounts : startswith(accounts[i].id, account_id \o <<"_">>)

\* any(a["id"].startswith(f"{account_id}_") for a in accounts if a["category"] == "asset")
has_children(accounts, account_id) ==
  \E i \in DOMAIN accounts :
    accounts[i].category = "asset" /\ startswith(accounts[i].id, account_id \o <<"_">>)

\* the three continue statements at the head of the loop body
skipped(accounts, account) ==
  \/ account.category # "asset"
  \/ ~contains(account.id, <<"_">>) /\ has_children(accounts, account.id)
  \/ account.value.amount = 0

\* the accounts whose amount reaches categories[category] += amount, in order
counted_accounts(accounts) == SelectSeq(accounts, LAMBDA account : ~skipped(accounts, account))

\* categories[category] after the loop
RECURSIVE category_sum(_, _)
category_sum(counted, category) ==
  IF counted = <<>> THEN 0
  ELSE (IF classify(Head(counted)) = category THEN Head(counted).value.amount ELSE 0)
       + category_sum(Tail(counted), category)

\* sum(categories.values())
RECURSIVE sum_values(_, _)
sum_values(categories, keys) ==
  IF keys = {} THEN 0
  ELSE LET k == CHOOSE k \in keys : TRUE
       IN categories[k] + sum_values(categories, keys \ {k})

\* {k: v / total * 100 for k, v in categories.items() if v > 0} if total > 0 else {}
percentages(categories, total) ==
  IF total > 0
  THEN [k \in {c \in AllocationCategories : categories[c] > 0} |->
          [num |-> categories[k] * 100, den |-> total]]
  ELSE [k \in {} |-> 0]

\* calculate_asset_allocation(snapshot)
calculate_asset_allocation(snapshot) ==
  LET counted == counted_accounts(snapshot.accounts)
      categories == [c \in AllocationCategories |-> category_sum(counted, c)]
  IN percentages(categories, sum_values(categories, AllocationCategories))

----------------------------------------------------------------------------
(* PortfolioReporter.calculate_asset_allocation (kubera_reporting/reporter.py): *)
(* the method's own copy of the categories, the sub-type map, the keyword   *)
(* lists, the cascade and the loop.                                         *)

\* a default of "Cash"
PortfolioReporter_by_default_cash(category) ==
  IF category = NoCategory THEN "Cash" ELSE category

\* if category is None: category = "Other"
PortfolioReporter_by_default(category) == IF category = NoCategory THEN "Other" ELSE category

\* the category the method's loop body adds the amount to: the value of category
\* after its if-blocks, in order
PortfolioReporter_classify(account) ==
  LET subtype_to_category_ ==
        (<<"stock">> :> "Stocks")
        @@ (<<"etf">> :> "Stocks")
        @@ (<<"bond">> :> "Bonds")
        @@ (<<"cash">> :> "Cash")
        @@ (<<"crypto">> :> "Crypto")
        @@ (<<"cryptocurrency">> :> "Crypto")
        @@ (<<"real", " ", "estate">> :> "Real Estate")
        @@ (<<"property">> :> "Real Estate")
        @@ (<<"primary", " ", "residence">> :> "Real Estate")
        @@ (<<"investment", " ", "property">> :> "Real Estate")
      bond_keywords_ ==
        {<<"bond">>, <<"fixed", " ", "income">>, <<"yield">>, <<"yld">>,
         <<"floating", " ", "rate">>, <<"floating-rate">>, <<"high", " ", "income">>,
         <<"high-inc", "ome">>, <<"high-inc">>, <<"income", " ", "fund">>,
         <<"income", " ", "builder">>, <<"mortgage">>, <<"treasury">>, <<"municipal">>,
         <<"corporate", " ", "debt">>, <<"balanced", " ", "income">>}
      investment_keywords_ ==
        {<<"investment">>, <<"brokerage">>, <<"ira">>, <<"401k">>, <<"stock">>, <<"equity">>}
      sub_type == lower(account.sub_type)
      asset_class == lower(account.asset_class)
      account_type == lower(account.account_type)
      sheet == lower(account.sheet_name)
      name == lower(account.name)
      \* if sub_type in subtype_to_category
      c1 == IF sub_type \in DOMAIN subtype_to_category_
            THEN subtype_to_category_[sub_type] ELSE NoCategory
      \* if sub_type == "mutual fund" or asset_class == "fund"
      c2 == IF sub_type = <<"mutual", " ", "fund">> \/ asset_class = <<"fund">>
            THEN IF \E kw \in bond_keywords_ : contains(name, kw) THEN "Bonds" ELSE "Stocks"
            ELSE c1
      \* if category is None and asset_class in subtype_to_category
      c3 == IF c2 = NoCategory /\ asset_class \in DOMAIN subtype_to_category_
            THEN subtype_to_category_[asset_class] ELSE c2
      \* if category is None: asset_class "stock" or "crypto"
      c4 == IF c3 = NoCategory
            THEN IF asset_class = <<"stock">> THEN "Stocks"
                 ELSE IF asset_class = <<"crypto">> THEN "Crypto"
                 ELSE c3
            ELSE c3
      \* if category is None: the sheet name and the account type
      c5 == IF c4 = NoCategory
            THEN IF contains(sheet, <<"crypto">>) THEN "Crypto"
                 ELSE IF contains(sheet, <<"real", " ", "estate">>)
                         \/ account_type = <<"property">>
                 THEN "Real Estate"
                 ELSE c4
            ELSE c4
      \* if category is None: keywords in the name and the sheet name
      c6 == IF c5 = NoCategory
            THEN IF contains(name, <<"crypto">>) THEN "Crypto"
                 ELSE IF contains(name, <<"bond">>) THEN "Bonds"
                 ELSE IF contains(sheet, <<"real", " ", "estate">>)
                         \/ contains(sheet, <<"property">>)
                 THEN "Real Estate"
                 ELSE IF contains(sheet, <<"bank">>) \/ contains(name, <<"cash">>)
                         \/ contains(name, <<"checking">>) \/ contains(name, <<"savings">>)
                 THEN "Cash"
                 ELSE IF \E kw \in investment_keywords_ :
                           contains(sheet, kw) \/ contains(name, kw)
                 THEN "Stocks"
                 ELSE c5
            ELSE c5
  IN PortfolioReporter_by_default(c6)

\* the method: the three continue statements, categories[category] += amount, and
\* {k: v / total * 100 for k, v in categories.items() if v > 0} if total > 0 else {}
PortfolioReporter_calculate_asset_allocation(snapshot) ==
  LET accounts == snapshot.accounts
      keys == {"Stocks", "Bonds", "Crypto", "Real Estate", "Cash", "Other"}
      has_children_(account_id) ==
        \E i \in DOMAIN accounts :
          accounts[i].category = "asset"
            /\ startswith(accounts[i].id, account_id \o <<"_">>)
      skipped_(account) ==
        \/ account.category # "asset"
        \/ ~contains(account.id, <<"_">>) /\ has_children_(account.id)
        \/ account.value.amount = 0
      amounts == [i \in DOMAIN accounts |->
                    [c \in keys |->
                       IF ~skipped_(accounts[i]) /\ PortfolioReporter_classify(accounts[i]) = c
                       THEN accounts[i].value.amount ELSE 0]]
      RECURSIVE added(_, _)
      added(c, n) == IF n = 0 THEN 0 ELSE added(c, n - 1) + amounts[n][c]
      categories == [c \in keys |-> added(c, Len(accounts))]
      total == sum_values(categories, keys)
  IN IF total > 0
     THEN [k \in {c \in keys : categories[c] > 0} |->
             [num |-> categories[k] * 100, den |-> total]]
     ELSE [k \in {} |-> 0]

\* PortfolioReporter().calculate_asset_allocation(snapshot)
ReporterAllocation ==
  /\ op = "input"
  /\ op' = "PortfolioReporter.calculate_asset_allocation"
  /\ ret' = Returned("allocation",
                     [counted |-> counted_accounts(arg.accounts),
                      allocation |-> PortfolioReporter_calculate_asset_allocation(arg)])
  /\ UNCHANGED <<files, today, nsaves, lastSaved, arg, looked, writer>>

----------------------------------------------------------------------------
(* The allocation, by both implementations, on one snapshot per behaviour  *)

AllocationAmounts == {0 - 100, 0, 100, 200}

\* metadata as the fetcher stores it for a share, for a bank balance, and as an
\* old snapshot has it for a bond fund
Profiles ==
  {[sub_type |-> <<"stock">>, asset_class |-> <<"stock">>, account_type |-> <<"investment">>,
    sheet_name |-> <<"Investment", "s">>, name |-> <<"Growth", " ", "Fund">>],
   [sub_type |-> <<"Cash">>, asset_class |-> <<"cash">>, account_type |-> <<"bank">>,
    sheet_name |-> <<"Bank">>, name |-> <<"Savings">>],
   [sub_type |-> <<>>, asset_class |-> <<>>, account_type |-> <<>>,
    sheet_name |-> <<"Assets">>, name |-> <<"Total", " ", "Bond", " ", "Index">>]}

AllocationAccounts ==
  {[id |-> id, category |-> category, value |-> [amount |-> amount, currency |-> "USD"],
    sub_type |-> profile.sub_type, asset_class |-> profile.asset_class,
    account_type |-> profile.account_type, sheet_name |-> profile.sheet_name,
    name |-> profile.name] :
     id \in AccountIds, category \in {"asset", "debt"}, amount \in AllocationAmounts,
     profile \in Profiles}

InitAlloc ==
  /\ files = EmptyStore
  /\ today = FirstToday
  /\ nsaves = 0
  /\ lastSaved = EmptyStore
  /\ op = "input"
  /\ \E accounts \in AccountLists(AllocationAccounts)
         \cup {<<[id |-> <<"a">>, category |-> "asset",
                  value |-> [amount |-> 100, currency |-> "USD"],
                  sub_type |-> sub_type, asset_class |-> asset_class,
                  account_type |-> account_type, sheet_name |-> sheet_name,
                  name |-> name]>> :
                 sub_type \in SubTypes, asset_class \in AssetClasses,
                 account_type \in AccountTypes, sheet_name \in SheetNames,
                 name \in Names} :
       arg = [timestamp |-> FirstToday, currency |-> "USD",
              net_worth |-> [amount |-> 100, currency |-> "USD"], accounts |-> accounts]
  /\ ret = None
  /\ looked = <<>>
  /\ writer = Idle

CalculateAssetAllocation ==
  /\ op = "input"
  /\ op' = "calculate_asset_allocation"
  /\ ret' = Returned("allocation", [counted |-> counted_accounts(arg.accounts),
                                    allocation |-> calculate_asset_allocation(arg)])
  /\ UNCHANGED <<files, today, nsaves, lastSaved, arg, looked, writer>>

NextAlloc == CalculateAssetAllocation \/ ReporterAllocation

SpecAlloc == InitAlloc /\ [][NextAlloc]_vars

----------------------------------------------------------------------------
(* Properties of the allocation *)

IsPrefix(prefix, str) ==
  Len(prefix) <= Len(str) /\ \A i \in DOMAIN prefix : str[i] = prefix[i]

HasChild(account) ==
  \E other \in Items(arg.accounts) :
    other.category = "asset" /\ IsPrefix(account.id \o <<"_">>, other.id)

Counted(account) ==
  /\ account.category = "asset"
  /\ account.value.amount # 0
  /\ "_" \in Chars(account.id) \/ ~HasChild(account)

\* C19: the accounts whose amounts enter the allocation are exactly the asset
\* accounts with a non-zero amount that are a child holding or have no asset
\* account in the snapshot whose id starts with their id and an underscore; a
\* parent with such a child and every debt account stay out.
C19_CountedAccounts ==
  op = "calculate_asset_allocation" =>
    ret.val.counted = SelectSeq(arg.accounts, Counted)

\* an allocation was computed from a parent with a child holding: the child is
\* counted and makes up the whole allocation, the parent is not counted
C19_Witness ==
  /\ op = "calculate_asset_allocation"
  /\ Len(arg.accounts) = 2
  /\ arg.accounts[1].id = <<"a">> /\ arg.accounts[1].category = "asset"
  /\ arg.accounts[1].value.amount = 200
  /\ arg.accounts[2].id = <<"a", "_", "x">>
  /\ ret.val.counted = <<arg.accounts[2]>>
  /\ DOMAIN ret.val.allocation = {"Stocks"}

Allocation == ret.val.allocation

\* the summed amount of the counted accounts of one category
RECURSIVE AmountOf(_, _)
AmountOf(accounts, category) ==
  IF accounts = <<>> THEN 0
  ELSE (IF Counted(Head(accounts)) /\ classify(Head(accounts)) = category
        THEN Head(accounts).value.amount ELSE 0)
       + AmountOf(Tail(accounts), category)

TotalCounted ==
  AmountOf(arg.accounts, "Stocks") + AmountOf(arg.accounts, "Bonds")
  + AmountOf(arg.accounts, "Crypto") + AmountOf(arg.accounts, "Real Estate")
  + AmountOf(arg.accounts, "Cash") + AmountOf(arg.accounts, "Other")

\* the sum of the quotients map[k] for k in keys, as a quotient
RECURSIVE SumOfQuotients(_, _)
SumOfQuotients(map, keys) ==
  IF keys = {} THEN [num |-> 0, den |-> 1]
  ELSE LET k == CHOOSE k \in keys : TRUE
           rest == SumOfQuotients(map, keys \ {k})
       IN [num |-> map[k].num * rest.den + rest.num * map[k].den,
           den |-> map[k].den * rest.den]

\* C20: the keys of the allocation are among the six categories; each value is
\* its category's summed amount as a percentage of the total counted amount; a
\* category whose sum is zero has no key; the map is empty when the total is
\* zero; the values of a non-empty map sum to 100.
C20_AllocationPercentages ==
  op = "calculate_asset_allocation" =>
    /\ DOMAIN Allocation \subseteq {"Stocks", "Bonds", "Crypto", "Real Estate", "Cash", "Other"}
    /\ \A k \in DOMAIN Allocation :
         /\ Allocation[k].den # 0
         /\ Allocation[k].num * TotalCounted = AmountOf(arg.accounts, k) * 100 * Allocation[k].den
    /\ \A k \in DOMAIN Allocation : AmountOf(arg.accounts, k) # 0
    /\ TotalCounted = 0 => DOMAIN Allocation = {}
    /\ DOMAIN Allocation # {}
         => SumOfQuotients(Allocation, DOMAIN Allocation).num
              = 100 * SumOfQuotients(Allocation, DOMAIN Allocation).den

----------------------------------------------------------------------------
(* Properties of the legacy tier *)

\* kw occurs in str
Occurs(kw, str) ==
  \E i \in 1..Len(str) :
    \A j \in DOMAIN kw : i + j - 1 <= Len(str) /\ str[i + j - 1] = kw[j]

OccursAny(kws, strs) == \E kw \in kws : \E str \in strs : Occurs(kw, str)

\* the legacy tier as the specification lists it, on the lower-cased name and sheet
LegacyCategory(name, sheet) ==
  IF Occurs(<<"crypto">>, name) THEN "Crypto"
  ELSE IF Occurs(<<"bond">>, name) THEN "Bonds"
  ELSE IF OccursAny({<<"real", " ", "estate">>, <<"property">>}, {sheet}) THEN "Real Estate"
  ELSE IF OccursAny({<<"bank">>, <<"cash">>, <<"checking">>, <<"savings">>}, {name, sheet})
  THEN "Cash"
  ELSE IF OccursAny({<<"investment">>, <<"brokerage">>, <<"ira">>, <<"401k">>, <<"stock">>,
                     <<"equity">>}, {name, sheet})
  THEN "Stocks"
  ELSE "Other"

\* C21: an account that the first five tiers leave without a category gets, in
\* this order: Crypto for "crypto" in the name; Bonds for "bond" in the name;
\* Real Estate for "real estate" or "property" in the sheet; Cash for "bank",
\* "cash", "checking" or "savings" in the name or in the sheet name; Stocks for an
\* investment keyword in the sheet or the name; otherwise Other.
C21_LegacyTier ==
  (op = "classify" /\ ret.val.tiers[5] = "None") =>
    ret.val.category = LegacyCategory(lower(arg.name), lower(arg.sheet_name))

----------------------------------------------------------------------------
(* list_snapshots on the names in the data directory.                       *)
(*                                                                         *)
(* A file name is a sequence of fragments: "snapshot_", the characters of   *)
(* the date string one by one, and the suffix.                             *)

DigitChars == <<"0", "1", "2", "3", "4", "5", "6", "7", "8", "9">>

IsDigit(c) == \E n \in 1..10 : DigitChars[n] = c

\* the number a string of digits denotes
RECURSIVE digits_value(_)
digits_value(chars) ==
  IF chars = <<>> THEN 0
  ELSE digits_value(SubSeq(chars, 1, Len(chars) - 1)) * 10
       + (CHOOSE n \in 1..10 : DigitChars[n] = chars[Len(chars)]) - 1

\* the last digit of n as a character
digit_char(n) == DigitChars[(n % 10) + 1]

\* date.strftime("%Y-%m-%d"): four, two and two digits
strftime(date) ==
  <<digit_char(date.year \div 1000), digit_char(date.year \div 100),
    digit_char(date.year \div 10), digit_char(date.year), "-",
    digit_char(date.month \div 10), digit_char(date.month), "-",
    digit_char(date.day \div 10), digit_char(date.day)>>

\* the format %Y-%m-%d matches str with the second hyphen at k.  %m: one or two
\* digits for 1..12; %d: one or two digits for 1..31, or a blank and one digit
format_matches(str, k) ==
  LET month_directive(chars) ==
        /\ Len(chars) \in {1, 2}
        /\ \A i \in DOMAIN chars : IsDigit(chars[i])
        /\ digits_value(chars) \in 1..12
      day_directive(chars) ==
        \/ /\ Len(chars) \in {1, 2}
           /\ \A i \in DOMAIN chars : IsDigit(chars[i])
           /\ digits_value(chars) \in 1..31
        \/ /\ Len(chars) = 2
           /\ chars[1] = " " /\ IsDigit(chars[2]) /\ chars[2] # "0"
  IN /\ k \in {7, 8}
     /\ Len(str) > k
     /\ \A i \in 1..4 : IsDigit(str[i])
     /\ str[5] = "-"
     /\ str[k] = "-"
     /\ month_directive(SubSeq(str, 6, k - 1))
     /\ day_directive(SubSeq(str, k + 1, Len(str)))

\* datetime.strptime(date_str, "%Y-%m-%d"): a date, or ValueError (ok = FALSE)
datetime_strptime(str) ==
  IF \E k \in {7, 8} : format_matches(str, k)
  THEN LET k == CHOOSE k \in {7, 8} : format_matches(str, k)
           y == digits_value(SubSeq(str, 1, 4))
           m == digits_value(SubSeq(str, 6, k - 1))
           d == digits_value(SelectSeq(SubSeq(str, k + 1, Len(str)), IsDigit))
       IN IF y >= 1 /\ d <= DaysInMonth(y, m)
          THEN Resolved([year |-> y, month |-> m, day |-> d, hour |-> 0])
          ELSE Raised
  ELSE Raised

\* the loop over the paths that glob("snapshot_*.json") yields: one date per name
\* that parses
RECURSIVE dates_of(_)
dates_of(names) ==
  IF names = {} THEN <<>>
  ELSE LET name == CHOOSE name \in names : TRUE
           glob_matches ==
             Len(name) >= 2 /\ name[1] = "snapshot_" /\ name[Len(name)] = ".json"
           \* path.stem.replace("snapshot_", "")
           date_str == SelectSeq(SubSeq(name, 1, Len(name) - 1),
                                 LAMBDA fragment : fragment # "snapshot_")
           date == datetime_strptime(date_str)
       IN IF glob_matches /\ date.ok
          THEN <<date.date>> \o dates_of(names \ {name})
          ELSE dates_of(names \ {name})

\* where sorted(dates, reverse=True) puts one more date
RECURSIVE insert_date(_, _)
insert_date(sorted, date) ==
  IF sorted = <<>> THEN <<date>>
  ELSE IF dt_ge(Head(sorted), date) THEN <<Head(sorted)>> \o insert_date(Tail(sorted), date)
  ELSE <<date>> \o sorted

\* sorted(dates, reverse=True)
RECURSIVE sorted_dates(_)
sorted_dates(dates) ==
  IF dates = <<>> THEN <<>>
  ELSE insert_date(sorted_dates(SubSeq(dates, 1, Len(dates) - 1)), dates[Len(dates)])

\* the store holds a whole snapshot file for every day of a set; arg is what else
\* lies in the directory, entries the store never writes: a text file, a backup
\* copy, a snapshot name with the date not zero-padded, and a snapshot name with
\* a day that is no date
InitList ==
  /\ \E dts \in SUBSET {dt \in StoreDateTimes : dt.hour = 0} :
       files = [p \in {get_snapshot_path(dt) : dt \in dts} |->
                  [snap |-> [timestamp |-> strptime(p), net_worth |-> 100],
                   len |-> DocChunks]]
  /\ today = FirstToday
  /\ nsaves = 0
  /\ lastSaved = Stored(files)
  /\ op = "input"
  /\ arg \in SUBSET {<<"notes", ".txt">>,
                      <<"snapshot_", "backup", ".json">>,
                      <<"snapshot_", "2", "0", "2", "5", "-", "1", "-", "1", ".json">>,
                      <<"snapshot_", "2", "0", "2", "5", "-", "0", "2", "-", "3", "0",
                        ".json">>}
  /\ ret = None
  /\ looked = <<>>
  /\ writer = Idle

\* list_snapshots() on the directory: the dates of the names, sorted.  A stored
\* date's file is named f"snapshot_{date.strftime('%Y-%m-%d')}.json"
ListSnapshots ==
  /\ op = "input"
  /\ op' = "list_snapshots"
  /\ ret' = Returned("dates",
       sorted_dates(dates_of({<<"snapshot_">> \o strftime(strptime(p)) \o <<".json">> :
                                p \in DOMAIN files} \cup arg)))
  /\ UNCHANGED <<files, today, nsaves, lastSaved, arg, looked, writer>>

SpecList == InitList /\ [][ListSnapshots]_vars

----------------------------------------------------------------------------
(* Properties of the listing *)

\* C22: list_snapshots returns exactly the dates that have a stored snapshot,
\* each once, in strictly descending order, whatever other entries lie in the
\* directory.
C22_ListSnapshots ==
  op = "list_snapshots" =>
    /\ {ret.val[i] : i \in DOMAIN ret.val} = {strptime(p) : p \in DOMAIN files}
    /\ \A i \in DOMAIN ret.val : \A j \in DOMAIN ret.val :
         i < j => JulianDay(get_snapshot_path(ret.val[i])) > JulianDay(get_snapshot_path(ret.val[j]))

----------------------------------------------------------------------------
(* Properties of the store over time *)

ReadOperations ==
  {"load_snapshot", "load_latest_snapshot", "list_snapshots", "get_comparison_snapshot"}

\* C23: a stored snapshot stays stored with the same content across loads,
\* listings, comparison lookups and saves for other dates; its content changes
\* only in a save of a snapshot with its calendar date, and it leaves the store
\* only in a cleanup.
C23_StoredSnapshotImmutable ==
  [][/\ op' \in ReadOperations => files' = files
     /\ \A p \in DOMAIN files :
          /\ p \notin DOMAIN files' => op' = "cleanup_old_snapshots"
          /\ (p \in DOMAIN files' /\ files'[p] # files[p])
               => /\ op' = "save_snapshot"
                  /\ <<arg'.timestamp.year, arg'.timestamp.month, arg'.timestamp.day>> = p
          /\ (op' = "save_snapshot"
              /\ <<arg'.timestamp.year, arg'.timestamp.month, arg'.timestamp.day>> # p)
               => p \in DOMAIN files' /\ files'[p] = files[p]]_vars

\* a comparison lookup has returned a snapshot from a store that holds three
\* dates after three saves, each with what was last saved for it
C23_Witness ==
  /\ op = "get_comparison_snapshot"
  /\ ret.kind = "snapshot"
  /\ nsaves = 3
  /\ Cardinality(DOMAIN files) = 3
  /\ \A p \in DOMAIN files : files[p].snap = lastSaved[p]

----------------------------------------------------------------------------
(* Access permissions of the data directory and the snapshot files.         *)
(*                                                                         *)
(* A mode gives the owner, the group and the others a set of rights; the   *)
(* process's umask is a mode too.  A file here is a file of the store with *)
(* its mode.                                                               *)

Mode(owner, group, other) == [owner |-> owner, group |-> group, other |-> other]

\* 0o600
mode_0o600 == Mode({"r", "w"}, {}, {})

\* 0o700
mode_0o700 == Mode({"r", "w", "x"}, {}, {})

\* mode & ~umask
masked(mode, umask) ==
  Mode(mode.owner \ umask.owner, mode.group \ umask.group, mode.other \ umask.other)

NoDirectory == Mode({"absent"}, {"absent"}, {"absent"})

\* the mode of the file after os.open(path, O_WRONLY | O_CREAT | O_TRUNC, mode):
\* the mode argument counts only when the call creates the file
os_open_mode(fs, path, mode, umask) ==
  IF path \in DOMAIN fs THEN fs[path].mode ELSE masked(mode, umask)

\* save_snapshot on files with modes
save_snapshot_with_mode(fs, snapshot, umask) ==
  LET path == get_snapshot_path(snapshot.timestamp)
      contents == [p \in DOMAIN fs |-> [snap |-> fs[p].snap, len |-> fs[p].len]]
      saved == save_snapshot(contents, snapshot)
  IN [p \in DOMAIN saved |->
        [snap |-> saved[p].snap, len |-> saved[p].len,
         mode |-> IF p = path THEN os_open_mode(fs, path, mode_0o600, umask)
                  ELSE fs[p].mode]]

\* the umask is 022 or 077; the data directory before the store is constructed
\* is missing, or was made by the user with the usual or with a private mode; a
\* directory that exists is empty or holds a snapshot file copied there by the
\* user, readable by everyone or private
InitPerm ==
  /\ op = "input"
  /\ arg \in [umask : {Mode({}, {"w"}, {"w"}), Mode({}, {"r", "w", "x"}, {"r", "w", "x"})},
              data_dir : {NoDirectory, Mode({"r", "w", "x"}, {"r", "x"}, {"r", "x"}),
                          mode_0o700},
              created : {FALSE}]
  /\ \/ files = EmptyStore
     \/ /\ arg.data_dir # NoDirectory
        /\ \E mode \in {Mode({"r", "w"}, {"r"}, {"r"}), mode_0o600} :
             files = [p \in {get_snapshot_path(FirstStoreDay)} |->
                        [snap |-> [timestamp |-> FirstStoreDay, net_worth |-> 100],
                         len |-> DocChunks, mode |-> mode]]
  /\ today = FirstToday
  /\ nsaves = 0
  /\ lastSaved = EmptyStore
  /\ ret = None
  /\ looked = <<>>
  /\ writer = Idle

\* SnapshotStorage(data_dir): mkdir(parents=True, exist_ok=True, mode=0o700) sets
\* the mode only of a directory it creates
NewStorage ==
  /\ op = "input"
  /\ op' = "__init__"
  /\ arg' = [arg EXCEPT !.data_dir = IF arg.data_dir = NoDirectory
                                     THEN masked(mode_0o700, arg.umask)
                                     ELSE arg.data_dir,
                        !.created = (arg.data_dir = NoDirectory)]
  /\ UNCHANGED <<files, today, nsaves, lastSaved, ret, looked, writer>>

SaveSnapshotWithMode(snapshot) ==
  /\ op # "input"
  /\ nsaves < MaxSaves
  /\ nsaves' = nsaves + 1
  /\ op' = "save_snapshot"
  /\ files' = save_snapshot_with_mode(files, snapshot, arg.umask)
  /\ looked' = get_snapshot_path(snapshot.timestamp)
  /\ ret' = Returned("existed", get_snapshot_path(snapshot.timestamp) \in DOMAIN files)
  /\ UNCHANGED <<today, lastSaved, arg, writer>>

SpecPerm ==
  InitPerm /\ [][NewStorage \/ \E snapshot \in Snapshots : SaveSnapshotWithMode(snapshot)]_vars

----------------------------------------------------------------------------
(* Properties of the permissions *)

OwnerOnly(mode) == mode.group = {} /\ mode.other = {}

\* C24: after save_snapshot has returned, the file of the snapshot's date gives
\* rights to its owner only, whether the save created the file or overwrote one,
\* and a data directory that the store created gives rights to its owner only.
C24_OwnerOnly ==
  op = "save_snapshot" =>
    /\ OwnerOnly(files[looked].mode)
    /\ arg.created => OwnerOnly(arg.data_dir)

----------------------------------------------------------------------------
(* The send command (kubera_reporting/cli.py): the reports for a stored date *)

\* the dates get_comparison_snapshot resolves for the report types of a date
baselines(date) ==
  {comparison_date(date, report_type).date :
     report_type \in {t \in ReportTypes : comparison_date(date, t).ok}}

\* a directory with a whole snapshot file, with accounts, for every day of a set
SendStore(dts) ==
  [p \in {get_snapshot_path(dt) : dt \in dts} |->
     [snap |-> ReportCurrent(strptime(p)), len |-> DocChunks]]

\* send --date: the exit code, the reports that the loop over
\* get_milestone_types(snapshot_date) generates, and the count in the last line
send(fs, snapshot_date) ==
  LET current_snapshot == load_snapshot(fs, snapshot_date)
      report_types == get_milestone_types(snapshot_date)
      generated ==
        [i \in 1..Len(report_types) |->
           [report_type |-> report_types[i],
            report |-> generate_report(current_snapshot.val,
                         get_comparison_snapshot(fs, snapshot_date, report_types[i]))]]
  IN IF current_snapshot.kind # "snapshot"
     THEN [exit_code |-> 1, generated |-> <<>>, count |-> 0]
     ELSE IF \E i \in DOMAIN generated : generated[i].report.kind = "error"
     THEN [exit_code |-> 1, generated |-> <<>>, count |-> 0]
     ELSE [exit_code |-> 0, generated |-> generated, count |-> Len(report_types)]

InitSend ==
  /\ op = "input"
  /\ arg \in {dt \in AllDateTimes : dt.hour = 0}
  /\ \/ files = EmptyStore
     \/ \E dts \in SUBSET baselines(arg) : files = SendStore(dts \cup {arg})
  /\ today = FirstToday
  /\ nsaves = 0
  /\ lastSaved = Stored(files)
  /\ ret = None
  /\ looked = <<>>
  /\ writer = Idle

Send ==
  /\ op = "input"
  /\ op' = "send"
  /\ \E r \in {send(files, arg)} : ret' = Returned("send", r)
  /\ UNCHANGED <<files, today, nsaves, lastSaved, arg, looked, writer>>

SpecSend == InitSend /\ [][Send]_vars

----------------------------------------------------------------------------
(* Properties of the send command *)

\* C25: the send command generates no weekly, monthly, quarterly or yearly
\* report for which no comparison snapshot is stored, and the count it reports at
\* the end is the number of reports it generated.
C25_SendSkipsWithoutComparison ==
  (op = "send" /\ ret.val.exit_code = 0) =>
    /\ \A i \in DOMAIN ret.val.generated :
         ret.val.generated[i].report_type # "daily"
           => get_snapshot_path(comparison_date(arg, ret.val.generated[i].report_type).date)
                \in DOMAIN files
    /\ ret.val.count = Len(ret.val.generated)

----------------------------------------------------------------------------
(* Cleanup on a day and the reports of that day and of later days           *)

MaxGap == 7

\* arg.date is a day whose reports are generated, today the day of the cleanup,
\* at most MaxGap days earlier; the store holds the comparison dates of arg.date
\* and the days 2, 3 and 8 days before it; lastSaved stays what was saved,
\* cleanup or not
InitBaseline ==
  /\ op = "input"
  /\ \E date \in {dt \in AllDateTimes : dt.hour = 0},
        gap \in 0..MaxGap, retention_days \in 0..MaxRetention :
       /\ arg = [date |-> date, retention_days |-> retention_days]
       /\ today = minus_days(date, gap)
       /\ files = SendStore(baselines(date) \cup {minus_days(date, k) : k \in {2, 3, 8}})
  /\ nsaves = 0
  /\ lastSaved = Stored(files)
  /\ ret = None
  /\ looked = <<>>
  /\ writer = Idle

\* cleanup_old_snapshots(retention_days) called at hour h of the day today
CleanupBeforeReports(h) ==
  /\ \E r \in {cleanup_old_snapshots(files, [today EXCEPT !.hour = h],
                                     arg.retention_days)} :
       /\ files' = r.files
       /\ ret' = Returned("count", r.deleted_count)
  /\ op' = "cleanup_old_snapshots"
  /\ UNCHANGED <<today, nsaves, lastSaved, arg, looked, writer>>

SpecBaseline == InitBaseline /\ [][\E h \in Hours : CleanupBeforeReports(h)]_vars

----------------------------------------------------------------------------
(* Properties of cleanup against later comparisons *)

\* the report types due on a date
DueTypes(date) ==
  {get_milestone_types(date)[i] : i \in DOMAIN get_milestone_types(date)}

\* the stored files that get_comparison_snapshot reads for the reports due on a date
DueBaselines(fs, date) ==
  {p \in DOMAIN fs :
     \E report_type \in DueTypes(date) :
        /\ comparison_date(date, report_type).ok
        /\ p = get_snapshot_path(comparison_date(date, report_type).date)}

\* C26: a cleanup run on day T with retention_days >= 0 deletes no snapshot that
\* get_comparison_snapshot resolves for a report due on a day D >= T: the file of
\* every such comparison date that was stored before the cleanup is still
\* stored, unchanged, after it.
C26_CleanupKeepsBaselines ==
  [][op' = "cleanup_old_snapshots" =>
       \A p \in DueBaselines(files, arg.date) :
          p \in DOMAIN files' /\ files'[p] = files[p]]_vars

\* a cleanup that deleted snapshots and kept a comparison snapshot older than the
\* retention period and older than yesterday
C26_Witness ==
  /\ op = "cleanup_old_snapshots"
  /\ ret.val > 0
  /\ \E p \in DueBaselines(files, arg.date) :
        toordinal(strptime(p)) < toordinal(today) - arg.retention_days - 1

----------------------------------------------------------------------------
(* The report command's cache of today's snapshot (cli.py, fetcher.py):     *)
(* datetime.now() is the local clock, datetime.now(timezone.utc) the same   *)
(* instant in UTC.  Here arg is the local zone's offset from UTC in hours   *)
(* and today carries the local hour.                                        *)

\* fetch_snapshot: the portfolio's figures stamped with datetime.now(timezone.utc),
\* the instant at which datetime.now() is now in a zone utcoffset hours off UTC
fetch_snapshot(now, utcoffset, net_worth) ==
  LET now_utc ==
        IF now.hour - utcoffset < 0
        THEN fromordinal(toordinal(now) - 1, now.hour - utcoffset + 24)
        ELSE IF now.hour - utcoffset > 23
        THEN fromordinal(toordinal(now) + 1, now.hour - utcoffset - 24)
        ELSE [now EXCEPT !.hour = now.hour - utcoffset]
  IN [timestamp |-> now_utc, net_worth |-> net_worth]

\* report up to the reports: today's snapshot from the store, or fetched and saved
report_current(fs, now, utcoffset, net_worth) ==
  LET current_snapshot == load_snapshot(fs, now)
      fetched == fetch_snapshot(now, utcoffset, net_worth)
  IN IF current_snapshot.kind = "snapshot"
     THEN [files |-> fs, fetched |-> FALSE, current_snapshot |-> current_snapshot.val]
     ELSE [files |-> save_snapshot(fs, fetched), fetched |-> TRUE,
           current_snapshot |-> fetched]

\* the zone is 5 hours behind UTC, UTC, or 9 hours ahead; the local clock is read
\* at 1, 13 and 22 o'clock
InitClock ==
  /\ files = EmptyStore
  /\ today \in {[FirstToday EXCEPT !.hour = h] : h \in {1, 13, 22}}
  /\ arg \in {0 - 5, 0, 9}
  /\ op = "input"
  /\ ret = None
  /\ nsaves = 0
  /\ lastSaved = Stored(files)
  /\ looked = <<>>
  /\ writer = Idle

\* kubera-report report run now: the snapshot, the reports, then the cleanup
ReportRun(net_worth) ==
  /\ load_snapshot(files, today).kind \in {"snapshot", "none"}
  /\ \E r \in {report_current(files, today, arg, net_worth)} :
       /\ files' = cleanup_old_snapshots(r.files, today, 60).files
       /\ ret' = Returned("report", [fetched |-> r.fetched,
                                     current_snapshot |-> r.current_snapshot])
       /\ nsaves' = IF r.fetched /\ nsaves < MaxSaves THEN nsaves + 1 ELSE nsaves
  /\ lastSaved' = Stored(files')
  /\ looked' = get_snapshot_path(today)
  /\ op' = "report"
  /\ UNCHANGED <<today, arg, writer>>

\* the local clock moves to a later hour of the same day
LaterHour ==
  /\ \E h \in {1, 13, 22} : h > today.hour /\ today' = [today EXCEPT !.hour = h]
  /\ UNCHANGED <<files, nsaves, lastSaved, op, arg, ret, looked, writer>>

\* local midnight passes
NextLocalDay ==
  /\ toordinal(today) < toordinal(FirstToday) + MaxDays
  /\ \E h \in {1, 13, 22} : today' = fromordinal(toordinal(today) + 1, h)
  /\ op' = "next_day"
  /\ ret' = None
  /\ looked' = <<>>
  /\ UNCHANGED <<files, nsaves, lastSaved, arg, writer>>

\* the API reports a net worth of 100 or 300
SpecClock ==
  InitClock /\ [][\/ \E net_worth \in {100, 300} : ReportRun(net_worth)
                  \/ LaterHour
                  \/ NextLocalDay]_vars

----------------------------------------------------------------------------
(* Properties of the report command's cache *)

\* C28: when report has run on a local calendar day (and so has fetched and
\* saved a snapshot, or found one), a later report on the same local day does
\* not fetch again and uses the same snapshot as today's cached snapshot.
C28_SameDayCache ==
  [][(op = "report" /\ \E net_worth \in {100, 300} : ReportRun(net_worth)) =>
       /\ ~ret'.val.fetched
       /\ ret'.val.current_snapshot = ret.val.current_snapshot]_vars

----------------------------------------------------------------------------
(* Properties of the two implementations *)

\* C29: for every snapshot, PortfolioReporter.calculate_asset_allocation returns
\* the same map of categories to percentages as
\* allocation.calculate_asset_allocation.
C29_SameAllocation ==
  /\ op = "PortfolioReporter.calculate_asset_allocation"
       => ret.val.allocation = calculate_asset_allocation(arg)
  /\ op = "calculate_asset_allocation"
       => ret.val.allocation = PortfolioReporter_calculate_asset_allocation(arg)

\* the method has returned an allocation with a share for Other, or one with two
\* categories
C29_Witness ==
  /\ op = "PortfolioReporter.calculate_asset_allocation"
  /\ \/ DOMAIN ret.val.allocation = {"Other"}
     \/ Cardinality(DOMAIN ret.val.allocation) = 2

----------------------------------------------------------------------------
(* Properties of repeated cleanup *)

\* C30: a cleanup that runs right after a cleanup, on the same day with the same
\* retention_days and no save in between, deletes nothing: it returns 0 and
\* leaves the stored dates and their contents as they were.
C30_CleanupIdempotent ==
  [][(op = "cleanup_old_snapshots" /\ op' = "cleanup_old_snapshots") =>
       /\ files' = files
       /\ ret' = Returned("count", 0)]_vars

\* a cleanup has returned 0 on a store from which an earlier cleanup deleted
\* snapshots and in which it left others
C30_Witness ==
  /\ op = "cleanup_old_snapshots"
  /\ ret.val = 0
  /\ DOMAIN files # DOMAIN lastSaved
  /\ DOMAIN files # {}

====
